---- MODULE Spec2Model ----
(***************************************************************************)
(* Ledger and account-lifecycle engine of the teaching bank:               *)
(* the Transactions ledger, derived balances, the loan state machine, the  *)
(* internal transfer, the db.transaction wrapper on the single shared      *)
(* SQLite connection, and the daily settlement scheduler.                  *)
(*                                                                         *)
(* Conventions of the model                                                *)
(*  - money is an integer number of cents;                                 *)
(*  - a date 'YYYY-MM-DD' is the tuple <<y, m, d>>; the server clock is    *)
(*    taken to be in UTC, so that new Date('YYYY-MM-DD') and the local     *)
(*    calendar day coincide;                                               *)
(*  - a Description is a sequence of tokens, so that a prefix added by a   *)
(*    caller and a LIKE 'p%' pattern keep their meaning.                   *)
(***************************************************************************)
EXTENDS Integers, Sequences, FiniteSets, TLC

\* ------------------------------------------------------------------------
\* Enumerations (services/constants.js)
\* ------------------------------------------------------------------------
CHEQUING == 1
LOAN == 2
SAVING == 3
INVESTMENT == 4

DEPOSIT == 1
WITHDRAWAL == 2
TRANSFER == 3

PENDING == 1
APPROVED == 2
REJECTED == 3
ACTIVE == 4
CLOSED == 5
PAID_OFF == 6

\* ------------------------------------------------------------------------
\* Bounds of the model
\* ------------------------------------------------------------------------
MaxTxns == 4      \* ledger entries inserted in one history
MaxAdds == 2      \* ledger entries posted by clients in one history
MaxTransfers == 2 \* transfers let through to executeTransfer in one history
MaxLoans == 2     \* loans one user holds where a pass visits several accounts
MaxProducts == 1  \* GIC products created in one history
MaxRuns == 2      \* settlement runs started in one history

\* Input domains
Users == {1}
Amounts == {50, 100}
Principals == {100}
Rates == {12}
Terms == {1}
Freqs == {"Monthly"}
ProductNames == {"Gold"}
ProductRates == {12, 120}
ProductTerms == {1, 2}
Minimums == {100}
Investments == {100}
Zones == {"UTC", "UTC-5"}
TxnTypes == {DEPOSIT, WITHDRAWAL, TRANSFER}
Statuses == {PENDING, APPROVED, REJECTED, ACTIVE, CLOSED, PAID_OFF}

\* Calendar days the server clock visits: a start day, the day one month
\* later (the first loan's anniversary and maturity, a second start day) and
\* a day past that maturity which is no anniversary
Calendar ==
  << <<2025, 1, 28>>, <<2025, 2, 28>>, <<2025, 3, 1>> >>

\* ------------------------------------------------------------------------
\* Dates
\* ------------------------------------------------------------------------
IsLeap(y) == (y % 4 = 0 /\ y % 100 # 0) \/ y % 400 = 0

DaysInMonth(y, m) ==
  IF m = 2 THEN (IF IsLeap(y) THEN 29 ELSE 28)
  ELSE IF m \in {4, 6, 9, 11} THEN 30 ELSE 31

\* string comparison of two 'YYYY-MM-DD' values / comparison of two Dates
DateLT(a, b) ==
  \/ a[1] < b[1]
  \/ a[1] = b[1] /\ a[2] < b[2]
  \/ a[1] = b[1] /\ a[2] = b[2] /\ a[3] < b[3]

DateLE(a, b) == a = b \/ DateLT(a, b)

\* Date.prototype.setMonth(getMonth() + n): the month is advanced and a day
\* past the end of the target month overflows into the following month
RECURSIVE NormalizeDate(_)
NormalizeDate(dt) ==
  IF dt[2] > 12 THEN NormalizeDate(<<dt[1] + 1, dt[2] - 12, dt[3]>>)
  ELSE IF dt[3] > DaysInMonth(dt[1], dt[2])
       THEN NormalizeDate(<<dt[1], dt[2] + 1, dt[3] - DaysInMonth(dt[1], dt[2])>>)
       ELSE dt

calculateMaturityDate(startDate, termMonths) ==
  NormalizeDate(<<startDate[1], startDate[2] + termMonths, startDate[3]>>)

hasReachedMaturity(startDate, termMonths, now) ==
  DateLE(calculateMaturityDate(startDate, termMonths), now)

\* the calendar day before a date
PrevDay(date) ==
  IF date[3] > 1 THEN <<date[1], date[2], date[3] - 1>>
  ELSE IF date[2] > 1 THEN <<date[1], date[2] - 1, DaysInMonth(date[1], date[2] - 1)>>
  ELSE <<date[1] - 1, 12, 31>>

\* const d = new Date('YYYY-MM-DD'); d.setHours(0, 0, 0, 0): the date-only
\* string is read as midnight UTC, and setHours takes the start of the local
\* day that instant falls in, the day before in a zone behind UTC
localMidnightOf(date, tz) == IF tz = "UTC-5" THEN PrevDay(date) ELSE date

\* Math.round(n / d) for n >= 0, d > 0
RoundDiv(n, d) == (2 * n + d) \div (2 * d)

\* ------------------------------------------------------------------------
\* State
\* ------------------------------------------------------------------------
VARIABLES
  accounts,   \* Accounts table: sequence of rows, AccountID = index
  txns,       \* Transactions table (the ledger): sequence of rows
  txnSeq,     \* AUTOINCREMENT counter of Transactions.TransactionID
  tidSeq,     \* number of transferIds generated so far
  clock,      \* index into Calendar of the current day
  pass,       \* scheduler: the pass of runDailyTasks in progress, or "idle"
  queue,      \* scheduler: accounts of the current pass still to visit
  runs,       \* number of settlement runs started
  lastOp,     \* the operation that made the last step, with its inputs
  hist,       \* what the previous and the current settlement run saw and left
  txnOpen,    \* connection: a BEGIN TRANSACTION is open
  saved,      \* connection: the tables as of the open BEGIN
  ppc,        \* per request: position inside db.transaction
  job,        \* per request: the transfer being executed
  products,   \* GICProducts table: sequence of rows, ProductID = index
  zone,       \* the time zone of the server process
  first       \* per request: the first-access call in progress, if any

dbVars == <<accounts, txns, txnSeq, tidSeq>>
schedVars == <<pass, queue, runs>>
connVars == <<txnOpen, saved, ppc, job>>
vars == <<accounts, txns, txnSeq, tidSeq, clock, pass, queue, runs, lastOp, hist,
          txnOpen, saved, ppc, job, products, zone, first>>

\* ------------------------------------------------------------------------
\* Rows and queries
\* ------------------------------------------------------------------------
NoDate == <<0, 0, 0>>

Account(user, type, status, principal, rate, term, startDate, freq) ==
  [user |-> user, type |-> type, status |-> status, principal |-> principal,
   rate |-> rate, term |-> term, startDate |-> startDate, freq |-> freq,
   product |-> 0]

\* getOrCreateAccount: INSERT INTO Accounts (UserID, AccountTypeID, StatusID)
ChequingRow(user) == Account(user, CHEQUING, ACTIVE, 0, 0, 0, NoDate, "")

AccountIds(accts) == 1..Len(accts)

RECURSIVE SumSeq(_)
SumSeq(ns) == IF ns = <<>> THEN 0 ELSE Head(ns) + SumSeq(Tail(ns))

\* the n-th day of 2025
DateOfDay(n) ==
  LET before(m) == SumSeq([k \in 1..(m - 1) |-> DaysInMonth(2025, k)])
      month == CHOOSE m \in 1..12 : before(m) < n /\ n <= before(m) + DaysInMonth(2025, m)
  IN <<2025, month, n - before(month)>>

\* new Date(): a clock within the Calendar is one of its days, a clock past
\* it counts the days of 2025 one by one
today ==
  IF clock \in DOMAIN Calendar THEN Calendar[clock] ELSE DateOfDay(clock - Len(Calendar))

\* Math.floor((b - a) / (1000 * 60 * 60 * 24)) for two local midnights:
\* the number of days from a to b, 0 when b is not after a
DaysBetween(a, b) ==
  LET leapDays(y) == (y \div 4) - (y \div 100) + (y \div 400)
      dayNumber(d) == 365 * d[1] + leapDays(d[1] - 1) + d[3]
                        + SumSeq([m \in 1..(d[2] - 1) |-> DaysInMonth(d[1], m)])
  IN IF DateLT(a, b) THEN dayNumber(b) - dayNumber(a) ELSE 0

\* Amount * CASE WHEN TransactionTypeID = 1 THEN 1 ELSE -1 END
SignedAmount(t) == IF t.type = DEPOSIT THEN t.amount ELSE 0 - t.amount

\* accountService.getBalance, evaluated on a ledger
BalanceIn(ledger, accountId) ==
  SumSeq([i \in 1..Len(ledger) |->
            IF ledger[i].acct = accountId THEN SignedAmount(ledger[i]) ELSE 0])

getBalance(accountId) == BalanceIn(txns, accountId)

\* the Status table: the name of each status id
StatusName(statusId) ==
  CASE statusId = PENDING -> "Pending"
    [] statusId = APPROVED -> "Approved"
    [] statusId = REJECTED -> "Rejected"
    [] statusId = ACTIVE -> "Active"
    [] statusId = CLOSED -> "Closed"
    [] OTHER -> "Paid Off"

\* accountService.getApprovedBalance, evaluated on a ledger: the signed sum
\* over the entries whose status is named 'Active' or 'Paid Off'
ApprovedBalanceIn(ledger, accountId) ==
  SumSeq([i \in 1..Len(ledger) |->
            IF /\ ledger[i].acct = accountId
               /\ StatusName(ledger[i].status) \in {"Active", "Paid Off"}
            THEN SignedAmount(ledger[i]) ELSE 0])

getApprovedBalance(accountId) == ApprovedBalanceIn(txns, accountId)

\* a row of GICProducts; DELETE leaves the ProductID unused for good
Product(name, rate, term, minimum) ==
  [name |-> name, rate |-> rate, term |-> term, minimum |-> minimum, live |-> TRUE]

\* what DELETE FROM GICProducts leaves of a row
NoProduct == [name |-> "", rate |-> 0, term |-> 0, minimum |-> 0, live |-> FALSE]

ProductIds == {i \in 1..Len(products) : products[i].live}

\* gicService.getGICProduct: the row, or none
HasProduct(productId) == productId \in ProductIds

\* getGIC: a.*, gp.ProductName of the LEFT JOIN on a.Description = ProductID,
\* and gic.ProductName || 'Investment' where it is used
ProductNameOf(gic) ==
  IF HasProduct(gic.product) THEN products[gic.product].name ELSE "Investment"

getAccount(accountId) ==
  IF accountId \in AccountIds(accounts) THEN accounts[accountId] ELSE [type |-> 0]

\* loanService.getLoan: the row, when it exists and is a Loan
IsLoan(accountId) ==
  accountId \in AccountIds(accounts) /\ accounts[accountId].type = LOAN

\* SELECT AccountID FROM Accounts WHERE UserID = ? AND AccountTypeID = CHEQUING
ChequingOf(user) ==
  {a \in AccountIds(accounts) : accounts[a].user = user /\ accounts[a].type = CHEQUING}

\* SELECT * FROM Accounts WHERE AccountTypeID = ? AND StatusID = ?, as AccountIDs
SelectAccounts(type, statusId) ==
  LET keep(i) == accounts[i].type = type /\ accounts[i].status = statusId
  IN SelectSeq([i \in 1..Len(accounts) |-> i], keep)

\* loanService.getActiveLoans
getActiveLoans == SelectAccounts(LOAN, ACTIVE)

\* gicService.getActiveGICs
getActiveGICs == SelectAccounts(INVESTMENT, ACTIVE)

IsPrefix(p, s) == Len(p) <= Len(s) /\ SubSeq(s, 1, Len(p)) = p

\* ------------------------------------------------------------------------
\* Ledger writes (transaction.service.js)
\* ------------------------------------------------------------------------
TxnRow(id, accountId, type, amount, date, description, transferId, statusId) ==
  [id |-> id, acct |-> accountId, type |-> type, amount |-> amount, date |-> date,
   desc |-> description, tid |-> transferId, status |-> statusId]

\* transactionService.createTransaction: one INSERT INTO Transactions
InsertTxn(ledger, seq, accountId, type, amount, date, description, transferId, statusId) ==
  Append(ledger, TxnRow(seq + 1, accountId, type, amount, date, description,
                        transferId, statusId))

\* transactionService.createSystemTransaction: dated today, auto-approved,
\* description prefixed with '[SYSTEM] '
InsertSystemTxn(ledger, seq, accountId, type, amount, description) ==
  InsertTxn(ledger, seq, accountId, type, amount, today,
            <<"[SYSTEM] ">> \o description, 0, APPROVED)

\* UPDATE Accounts SET StatusID = ? WHERE AccountID = ?
SetStatus(accts, accountId, statusId) ==
  IF accountId \in AccountIds(accts)
  THEN [accts EXCEPT ![accountId].status = statusId]
  ELSE accts

TxnIds == {txns[i].id : i \in 1..Len(txns)}

\* ------------------------------------------------------------------------
\* Bookkeeping of the model: which operation took the last step
\* ------------------------------------------------------------------------
Op(name, accountId, other, amount, ok) ==
  [op |-> name, acct |-> accountId, other |-> other, amount |-> amount, ok |-> ok]

NoHist ==
  [lastDay |-> 0, lastDb |-> <<>>, quiet |-> FALSE, repeat |-> FALSE, clean |-> FALSE,
   eligible |-> {}, repeatDone |-> FALSE, same |-> TRUE, settled |-> {}]

\* a request (anything but the scheduler) took a step: no run is undisturbed;
\* the loans a settlement pass has made PaidOff or Closed stay on record
Touched == [NoHist EXCEPT !.settled = hist.settled]

\* the loans a user has asked for
LoansOf(user) ==
  {a \in AccountIds(accounts) : accounts[a].type = LOAN /\ accounts[a].user = user}

\* ------------------------------------------------------------------------
\* Client and admin requests, one request at a time
\* ------------------------------------------------------------------------
\* POST /client/transactions/add: the type comes from the form unchecked, the
\* entry is Pending
addTransaction(accountId, type, amount) ==
  /\ txnSeq < MaxAdds
  /\ accounts[accountId].type = CHEQUING
  /\ txns' = InsertTxn(txns, txnSeq, accountId, type, amount, today, <<"user">>, 0, PENDING)
  /\ txnSeq' = txnSeq + 1
  /\ lastOp' = Op("addTransaction", accountId, type, amount, TRUE)
  /\ hist' = Touched
  /\ UNCHANGED <<accounts, tidSeq, clock, products, zone, first, schedVars, connVars>>

\* POST /admin/transactions/update -> transactionService.approveTransaction
approveTransaction(id) ==
  /\ txns' = [i \in 1..Len(txns) |->
                IF txns[i].id = id THEN [txns[i] EXCEPT !.status = APPROVED] ELSE txns[i]]
  /\ lastOp' = Op("approveTransaction", id, 0, 0, TRUE)
  /\ hist' = Touched
  /\ UNCHANGED <<accounts, txnSeq, tidSeq, clock, products, zone, first, schedVars, connVars>>

\* POST /admin/transactions/delete -> transactionService.deleteTransaction
deleteTransaction(id) ==
  /\ LET keep(t) == t.id # id IN txns' = SelectSeq(txns, keep)
  /\ lastOp' = Op("deleteTransaction", id, 0, 0, TRUE)
  /\ hist' = Touched
  /\ UNCHANGED <<accounts, txnSeq, tidSeq, clock, products, zone, first, schedVars, connVars>>

\* a transfer check that looks at the source only
TransferAcceptedSourceOnly(source, destination, amount) ==
  ~(getBalance(source) <= 0 \/ getBalance(source) < amount)

\* POST /client/transfer: the two checks made before the transfer is executed
TransferAccepted(source, destination, amount) ==
  /\ ~(getBalance(source) <= 0 \/ getBalance(source) < amount)
  /\ ~(accounts[destination].principal - getBalance(destination) - amount < 0)

\* executeTransfer, 'Credit to destination': the Deposit leg
DepositLeg(ledger, seq, source, destination, amount, date, transferId) ==
  InsertTxn(ledger, seq, destination, DEPOSIT, amount, date,
            <<"Internal Transaction from ", accounts[source].type, source>>,
            transferId, APPROVED)

\* executeTransfer, 'Debit from source': the Withdrawal leg
WithdrawalLeg(ledger, seq, source, destination, amount, date, transferId) ==
  InsertTxn(ledger, seq, source, WITHDRAWAL, amount, date,
            <<"Internal Transaction to ", accounts[destination].type, destination>>,
            transferId, APPROVED)

\* a transfer that posts the Deposit on the destination only
TransferLegsDepositOnly(ledger, seq, source, destination, amount, transferId) ==
  DepositLeg(ledger, seq, source, destination, amount, today, transferId)

\* transactionService.executeTransfer, both inserts and the commit succeeding:
\* the Deposit on the destination is written first, then the Withdrawal
TransferLegs(ledger, seq, source, destination, amount, transferId) ==
  WithdrawalLeg(DepositLeg(ledger, seq, source, destination, amount, today, transferId),
                seq + 1, source, destination, amount, today, transferId)

transfer(source, destination, amount) ==
  /\ txnSeq + 2 <= MaxTxns
  /\ IF TransferAccepted(source, destination, amount)
     THEN /\ txns' = TransferLegs(txns, txnSeq, source, destination, amount, tidSeq + 1)
          /\ txnSeq' = txnSeq + 2
          /\ tidSeq' = tidSeq + 1
          /\ lastOp' = Op("transfer", source, destination, amount, TRUE)
     ELSE /\ UNCHANGED <<txns, txnSeq, tidSeq>>
          /\ lastOp' = Op("transfer", source, destination, amount, FALSE)
  /\ hist' = Touched
  /\ UNCHANGED <<accounts, clock, products, zone, first, schedVars, connVars>>

\* loanService.createLoanRequest: a start date before today is refused
\* a check that refuses the day of the request as well
isPastDateOrToday(startDate, now) == DateLE(startDate, now)

\* if (startDate < todayString): 'YYYY-MM-DD' strings compare as their dates
isPastDate(startDate, now) == DateLT(startDate, now)

\* the position of a date in the Calendar, 0 when it is not a day of it
DayIndex(date) ==
  IF \E i \in 1..Len(Calendar) : Calendar[i] = date
  THEN CHOOSE i \in 1..Len(Calendar) : Calendar[i] = date
  ELSE 0

createLoanRequest(user, amount, rate, term, startDate, freq) ==
  /\ IF isPastDate(startDate, today)
     THEN /\ UNCHANGED accounts
          /\ lastOp' = Op("createLoanRequest", 0, DayIndex(startDate), amount, FALSE)
     ELSE /\ accounts' = Append(accounts,
                 Account(user, LOAN, PENDING, amount, rate, term, startDate, freq))
          /\ lastOp' = Op("createLoanRequest", Len(accounts) + 1, DayIndex(startDate),
                          amount, TRUE)
  /\ hist' = Touched
  /\ UNCHANGED <<txns, txnSeq, tidSeq, clock, products, zone, first, schedVars, connVars>>

\* loanService.approveLoan: 'Loan not found' unless the row is a Loan, then
\* the status is set to Active whatever it was
ApproveEffect(accountId) ==
  IF IsLoan(accountId) THEN SetStatus(accounts, accountId, ACTIVE) ELSE accounts

approveLoan(accountId) ==
  /\ accounts' = ApproveEffect(accountId)
  /\ lastOp' = Op("approveLoan", accountId, 0, 0, IsLoan(accountId))
  /\ hist' = Touched
  /\ UNCHANGED <<txns, txnSeq, tidSeq, clock, products, zone, first, schedVars, connVars>>

\* loanService.denyLoan: the status of the row with that id is set to Rejected
DenyEffect(accountId) == SetStatus(accounts, accountId, REJECTED)

denyLoan(accountId) ==
  /\ accounts' = DenyEffect(accountId)
  /\ lastOp' = Op("denyLoan", accountId, 0, 0, TRUE)
  /\ hist' = Touched
  /\ UNCHANGED <<txns, txnSeq, tidSeq, clock, products, zone, first, schedVars, connVars>>

\* POST /admin/loans/edit -> loanService.updateLoan -> accountService.updateAccount:
\* the admin's form rewrites the row, the status included (the other fields
\* are resubmitted as they are)
updateLoan(accountId, statusId) ==
  /\ IsLoan(accountId)
  /\ accounts[accountId].status # statusId
  /\ accounts' = SetStatus(accounts, accountId, statusId)
  /\ lastOp' = Op("updateLoan", accountId, 0, statusId, TRUE)
  /\ hist' = [Touched EXCEPT !.settled = @ \ {accountId}]
  /\ UNCHANGED <<txns, txnSeq, tidSeq, clock, products, zone, first, schedVars, connVars>>

\* the calendar day changes
Tick ==
  /\ clock < Len(Calendar)
  /\ clock' = clock + 1
  /\ lastOp' = Op("Tick", 0, 0, 0, TRUE)
  /\ hist' = Touched
  /\ UNCHANGED <<dbVars, schedVars, connVars, products, zone, first>>

\* the tables a ROLLBACK leaves: those of the BEGIN of the open transaction,
\* whoever opened it; with no transaction open the tables are left alone
afterRollbackKept(open, snapshot, current) == current

afterRollback(open, snapshot, current) == IF open THEN snapshot ELSE current

\* POST /admin/gics/add: gicService.createGICProduct
createGICProduct(name, rate, term, minimum) ==
  /\ Len(products) < MaxProducts
  /\ products' = Append(products, Product(name, rate, term, minimum))
  /\ lastOp' = Op("createGICProduct", 0, Len(products) + 1, 0, TRUE)
  /\ hist' = Touched
  /\ UNCHANGED <<dbVars, clock, zone, first, schedVars, connVars>>

\* POST /admin/gics/edit/:productId: gicService.updateGICProduct
updateGICProduct(productId, name, rate, term, minimum) ==
  /\ HasProduct(productId)
  /\ products' = [products EXCEPT ![productId] = Product(name, rate, term, minimum)]
  /\ lastOp' = Op("updateGICProduct", 0, productId, 0, TRUE)
  /\ hist' = Touched
  /\ UNCHANGED <<dbVars, clock, zone, first, schedVars, connVars>>

\* POST /admin/gics/delete: gicService.deleteGICProduct
deleteGICProduct(productId) ==
  /\ HasProduct(productId)
  /\ products' = [products EXCEPT ![productId] = NoProduct]
  /\ lastOp' = Op("deleteGICProduct", 0, productId, 0, TRUE)
  /\ hist' = Touched
  /\ UNCHANGED <<dbVars, clock, zone, first, schedVars, connVars>>

\* the row purchaseGIC creates: the product's rate and term are copied into
\* it, description: productId.toString()
GICRow(user, amount, productId, startDate) ==
  [Account(user, INVESTMENT, ACTIVE, amount, products[productId].rate,
           products[productId].term, startDate, "")
     EXCEPT !.product = productId]

\* the checks of purchaseGIC, in their order: what the request is refused for
PurchaseRefusal(chequingAccountId, productId, amount) ==
  IF ~HasProduct(productId) THEN "GIC product not found"
  ELSE IF amount < products[productId].minimum THEN "Minimum investment amount"
  ELSE IF getApprovedBalance(chequingAccountId) < amount THEN "Insufficient funds"
  ELSE "none"

\* the two writes inside db.transaction; fault: the write the storage rejects
PurchaseWrites(user, chequingAccountId, productId, amount, fault) ==
  IF fault = "none"
  THEN [accounts |-> Append(accounts, GICRow(user, amount, productId, today)),
        txns |-> InsertTxn(txns, txnSeq, chequingAccountId, WITHDRAWAL, amount, today,
                           <<"GIC Investment - ", products[productId].name>>, 0, APPROVED),
        txnSeq |-> txnSeq + 1, acted |-> TRUE]
  ELSE [accounts |-> afterRollback(TRUE, accounts,
                                   IF fault = "withdrawal"
                                   THEN Append(accounts,
                                               GICRow(user, amount, productId, today))
                                   ELSE accounts),
        txns |-> txns, txnSeq |-> txnSeq, acted |-> FALSE]

\* a purchase that opens the account ahead of the check of the funds
PurchaseResultEager(user, chequingAccountId, productId, amount, fault) ==
  IF PurchaseRefusal(chequingAccountId, productId, amount) = "Insufficient funds"
  THEN [accounts |-> Append(accounts, GICRow(user, amount, productId, today)),
        txns |-> txns, txnSeq |-> txnSeq, acted |-> FALSE]
  ELSE IF PurchaseRefusal(chequingAccountId, productId, amount) # "none"
  THEN [accounts |-> accounts, txns |-> txns, txnSeq |-> txnSeq, acted |-> FALSE]
  ELSE PurchaseWrites(user, chequingAccountId, productId, amount, fault)

\* gicService.purchaseGIC: the tables it leaves and whether it returned
PurchaseResult(user, chequingAccountId, productId, amount, fault) ==
  IF PurchaseRefusal(chequingAccountId, productId, amount) # "none"
  THEN [accounts |-> accounts, txns |-> txns, txnSeq |-> txnSeq, acted |-> FALSE]
  ELSE PurchaseWrites(user, chequingAccountId, productId, amount, fault)

\* POST /client/gic/purchase/:productId, with req.user.account the Chequing
\* account of the user
purchaseGIC(user, chequingAccountId, productId, amount, fault) ==
  /\ txnSeq < MaxTxns
  /\ chequingAccountId \in ChequingOf(user)
  /\ accounts' = PurchaseResult(user, chequingAccountId, productId, amount, fault).accounts
  /\ txns' = PurchaseResult(user, chequingAccountId, productId, amount, fault).txns
  /\ txnSeq' = PurchaseResult(user, chequingAccountId, productId, amount, fault).txnSeq
  /\ lastOp' = Op("purchaseGIC", chequingAccountId, productId, amount,
                  PurchaseResult(user, chequingAccountId, productId, amount, fault).acted)
  /\ hist' = Touched
  /\ UNCHANGED <<tidSeq, clock, products, zone, first, schedVars, connVars>>

\* ------------------------------------------------------------------------
\* Loan and GIC settlement steps (loan.service.js, gic.service.js)
\* Each yields the tables it leaves and whether it acted.
\* ------------------------------------------------------------------------
Result(accts, ledger, seq, acted) ==
  [accounts |-> accts, txns |-> ledger, txnSeq |-> seq, acted |-> acted, threw |-> FALSE]

Unchanged == Result(accounts, txns, txnSeq, FALSE)

\* throw new Error('User chequing account not found'): the call has written
\* nothing, and the catch of the pass logs the error
Throws == [Unchanged EXCEPT !.threw = TRUE]

\* const loan = await this.getLoan(loanId);
\* if (!loan || loan.StatusID !== STATUS.ACTIVE) return
IsActiveLoan(loanId) == IsLoan(loanId) /\ accounts[loanId].status = ACTIVE

FirstChequing(user) == CHOOSE a \in ChequingOf(user) : \A b \in ChequingOf(user) : a <= b

DisbursementTag(loanId) == <<"Loan disbursement - Loan #", loanId>>

\* SELECT TransactionID FROM Transactions WHERE AccountID = ? AND
\* Description LIKE 'Loan disbursement - Loan #<id>%' LIMIT 1
existingDisbursement(chequingId, loanId) ==
  \E i \in 1..Len(txns) :
    txns[i].acct = chequingId /\ IsPrefix(DisbursementTag(loanId), txns[i].desc)

\* a disbursement made on the start date only
notYetStartedExact(now, startDate) == now # startDate

\* if (today < startDate) return false
notYetStarted(now, startDate) == DateLT(now, startDate)

\* loanService.disburseLoan
disburseLoan(loanId) ==
  IF ~IsActiveLoan(loanId) THEN Unchanged
  ELSE IF notYetStarted(today, localMidnightOf(accounts[loanId].startDate, zone))
  THEN Unchanged
  ELSE IF ChequingOf(accounts[loanId].user) = {} THEN Throws
  ELSE IF existingDisbursement(FirstChequing(accounts[loanId].user), loanId) THEN Unchanged
  ELSE Result(accounts,
              InsertSystemTxn(txns, txnSeq, FirstChequing(accounts[loanId].user), DEPOSIT,
                              accounts[loanId].principal,
                              DisbursementTag(loanId) \o <<" (principal at rate% APR)">>),
              txnSeq + 1, TRUE)

\* (now.getFullYear() - startDate.getFullYear()) * 12 + (now.getMonth() - startDate.getMonth())
monthsElapsed(startDate, now) == (now[1] - startDate[1]) * 12 + (now[2] - startDate[2])

\* the interest due today in cents, 0 when today is no due date:
\* Math.round(principal * rate / 100 / 12 * 100) / 100 monthly,
\* Math.round(principal * rate / 100 * 100) / 100 annually
interestDue(loan, now) ==
  LET elapsed == monthsElapsed(loan.startDate, now)
      isAnniversaryDay == now[3] = loan.startDate[3]
  IN IF loan.freq = "Monthly"
     THEN (IF elapsed > 0 /\ isAnniversaryDay
           THEN RoundDiv(loan.principal * loan.rate, 1200) ELSE 0)
     ELSE IF loan.freq = "Annual"
     THEN (IF elapsed > 0 /\ elapsed % 12 = 0 /\ isAnniversaryDay
           THEN RoundDiv(loan.principal * loan.rate, 100) ELSE 0)
     ELSE 0

\* an interest step that charges only what the Chequing account can pay
processLoanInterestIfFunded(loanId) ==
  IF ~IsActiveLoan(loanId) THEN Unchanged
  ELSE IF interestDue(accounts[loanId], today) <= 0 THEN Unchanged
  ELSE IF ChequingOf(accounts[loanId].user) = {} THEN Throws
  ELSE IF getBalance(FirstChequing(accounts[loanId].user)) < interestDue(accounts[loanId], today)
  THEN Unchanged
  ELSE Result(accounts,
              InsertSystemTxn(txns, txnSeq, FirstChequing(accounts[loanId].user), WITHDRAWAL,
                              interestDue(accounts[loanId], today),
                              <<accounts[loanId].freq, " loan interest payment - Loan #", loanId>>),
              txnSeq + 1, TRUE)

\* loanService.processLoanInterest
processLoanInterest(loanId) ==
  IF ~IsActiveLoan(loanId) THEN Unchanged
  ELSE IF interestDue(accounts[loanId], today) <= 0 THEN Unchanged
  ELSE IF ChequingOf(accounts[loanId].user) = {} THEN Throws
  ELSE Result(accounts,
              InsertSystemTxn(txns, txnSeq, FirstChequing(accounts[loanId].user), WITHDRAWAL,
                              interestDue(accounts[loanId], today),
                              <<accounts[loanId].freq, " loan interest payment - Loan #", loanId>>),
              txnSeq + 1, TRUE)

\* loanService.checkLoanPayoff
checkLoanPayoff(loanId) ==
  IF ~IsActiveLoan(loanId) THEN Unchanged
  ELSE IF getBalance(loanId) >= accounts[loanId].principal
  THEN Result(SetStatus(accounts, loanId, PAID_OFF), txns, txnSeq, TRUE)
  ELSE Unchanged

FinalPaymentTag(loanId) == <<"Loan maturity - Final payment for Loan #", loanId>>

\* a maturity check that closes the loan without the final withdrawal
checkLoanMaturityCloseOnly(loanId) ==
  IF ~IsActiveLoan(loanId) THEN Unchanged
  ELSE IF ~hasReachedMaturity(accounts[loanId].startDate, accounts[loanId].term, today)
  THEN Unchanged
  ELSE Result(SetStatus(accounts, loanId, CLOSED), txns, txnSeq, TRUE)

\* loanService.checkLoanMaturity, the withdrawal and the status update both
\* succeeding inside db.transaction
checkLoanMaturity(loanId) ==
  IF ~IsActiveLoan(loanId) THEN Unchanged
  ELSE IF ~hasReachedMaturity(accounts[loanId].startDate, accounts[loanId].term, today)
  THEN Unchanged
  ELSE IF ChequingOf(accounts[loanId].user) = {} THEN Throws
  ELSE LET remainingBalance == accounts[loanId].principal - getBalance(loanId)
       IN IF remainingBalance > 0
          THEN Result(SetStatus(accounts, loanId, CLOSED),
                      InsertSystemTxn(txns, txnSeq, FirstChequing(accounts[loanId].user),
                                      WITHDRAWAL, remainingBalance, FinalPaymentTag(loanId)),
                      txnSeq + 1, TRUE)
          ELSE Result(SetStatus(accounts, loanId, CLOSED), txns, txnSeq, TRUE)

\* the revision of the loan service in src/unnamed/part_008
\* FINANCIAL_CONFIG.ROUNDING_TOLERANCE, in cents
ROUNDING_TOLERANCE == 1

\* financialService.calculateAccruedInterestToYesterday: simple interest
\* principal * rate / 100 * days / 365 over the days from the start date to
\* yesterday, in 1/36500 of a cent
calculateAccruedInterestToYesterday(principal, rate, startDate) ==
  principal * rate * DaysBetween(startDate, PrevDay(today))

\* a payoff check that compares the balance with the principal alone
checkLoanPayoffPrincipalOnly(loanId) ==
  IF ~IsActiveLoan(loanId) THEN Unchanged
  ELSE IF getBalance(loanId) >= accounts[loanId].principal
  THEN Result(SetStatus(accounts, loanId, PAID_OFF), txns, txnSeq, TRUE)
  ELSE Unchanged

\* loanService.checkLoanPayoff of part_008:
\* paidOffAmount = principal + accruedInterest - balance, compared with the
\* tolerance (both sides in 1/36500 of a cent)
checkLoanPayoff_008(loanId) ==
  IF ~IsActiveLoan(loanId) THEN Unchanged
  ELSE IF 36500 * (accounts[loanId].principal - getBalance(loanId))
            + calculateAccruedInterestToYesterday(accounts[loanId].principal,
                                                  accounts[loanId].rate,
                                                  accounts[loanId].startDate)
          <= 36500 * ROUNDING_TOLERANCE
  THEN Result(SetStatus(accounts, loanId, PAID_OFF), txns, txnSeq, TRUE)
  ELSE Unchanged

\* loanService.disburseLoan of part_008: if (loan.StartDate !== yesterdayString)
\* return false; no look for an earlier disbursement
disburseLoan_008(loanId) ==
  IF ~IsActiveLoan(loanId) THEN Unchanged
  ELSE IF accounts[loanId].startDate # PrevDay(today) THEN Unchanged
  ELSE IF ChequingOf(accounts[loanId].user) = {} THEN Throws
  ELSE Result(accounts,
              InsertSystemTxn(txns, txnSeq, FirstChequing(accounts[loanId].user), DEPOSIT,
                              accounts[loanId].principal,
                              DisbursementTag(loanId) \o <<" (principal at rate% APR)">>),
              txnSeq + 1, TRUE)

RECURSIVE Pow(_, _)
Pow(b, e) == IF e = 0 THEN 1 ELSE b * Pow(b, e - 1)

\* interest that is not compounded
gicMaturityValueSimple(principal, rate, term) ==
  RoundDiv(principal * (1200 + rate * term), 1200)

\* Math.round(calculateGICMaturityValue(gic) * 100) / 100 in cents:
\* principal * (1 + rate/100/12) ^ (12 * term/12)
gicMaturityValue(principal, rate, term) ==
  RoundDiv(principal * Pow(1200 + rate, term), Pow(1200, term))

\* a payout worked out from the rate and the term the product has today
calculateGICMaturityValueOfProduct(gic) ==
  IF HasProduct(gic.product)
  THEN gicMaturityValue(gic.principal, products[gic.product].rate,
                        products[gic.product].term)
  ELSE gic.principal

\* gicService.calculateGICMaturityValue(gic): the principal, the rate and the
\* term are those of the account row
calculateGICMaturityValue(gic) == gicMaturityValue(gic.principal, gic.rate, gic.term)

\* a maturity step that passes over an investment whose owner has no
\* Chequing account without raising anything
matureGICSilent(gicId) ==
  IF ~(gicId \in AccountIds(accounts) /\ accounts[gicId].type = INVESTMENT
       /\ accounts[gicId].status = ACTIVE) THEN Unchanged
  ELSE IF ~hasReachedMaturity(accounts[gicId].startDate, accounts[gicId].term, today)
  THEN Unchanged
  ELSE IF ChequingOf(accounts[gicId].user) = {} THEN Unchanged
  ELSE Result(SetStatus(accounts, gicId, CLOSED),
              InsertSystemTxn(txns, txnSeq, FirstChequing(accounts[gicId].user), DEPOSIT,
                              calculateGICMaturityValue(accounts[gicId]),
                              <<"GIC maturity - ", ProductNameOf(accounts[gicId]),
                                accounts[gicId].principal,
                                calculateGICMaturityValue(accounts[gicId])>>),
              txnSeq + 1, TRUE)

\* gicService.matureGIC
matureGIC(gicId) ==
  IF ~(gicId \in AccountIds(accounts) /\ accounts[gicId].type = INVESTMENT
       /\ accounts[gicId].status = ACTIVE) THEN Unchanged
  ELSE IF ~hasReachedMaturity(accounts[gicId].startDate, accounts[gicId].term, today)
  THEN Unchanged
  ELSE IF ChequingOf(accounts[gicId].user) = {} THEN Throws
  ELSE Result(SetStatus(accounts, gicId, CLOSED),
              InsertSystemTxn(txns, txnSeq, FirstChequing(accounts[gicId].user), DEPOSIT,
                              calculateGICMaturityValue(accounts[gicId]),
                              <<"GIC maturity - ", ProductNameOf(accounts[gicId]),
                                accounts[gicId].principal,
                                calculateGICMaturityValue(accounts[gicId])>>),
              txnSeq + 1, TRUE)

\* ------------------------------------------------------------------------
\* Daily settlement scheduler (runDailyTasks)
\* ------------------------------------------------------------------------
\* an order with the maturity check ahead of the payoff check
NextPassMaturityFirst(p) ==
  CASE p = "idle" -> "disburse"
    [] p = "disburse" -> "interest"
    [] p = "interest" -> "maturity"
    [] p = "maturity" -> "payoff"
    [] p = "payoff" -> "gic"
    [] p = "gic" -> "idle"

\* the order in which runDailyTasks awaits its passes
NextPass(p) ==
  CASE p = "idle" -> "disburse"
    [] p = "disburse" -> "interest"
    [] p = "interest" -> "payoff"
    [] p = "payoff" -> "maturity"
    [] p = "maturity" -> "gic"
    [] p = "gic" -> "idle"

\* the accounts a pass reads when it begins
PassAccounts(p) ==
  IF p \in {"disburse", "interest", "payoff", "maturity"} THEN getActiveLoans
  ELSE IF p = "gic" THEN getActiveGICs
  ELSE <<>>

\* what a pass does with one account of its list
PassStep(p, accountId) ==
  CASE p = "disburse" -> disburseLoan(accountId)
    [] p = "interest" -> processLoanInterest(accountId)
    [] p = "payoff" -> checkLoanPayoff(accountId)
    [] p = "maturity" -> checkLoanMaturity(accountId)
    [] p = "gic" -> matureGIC(accountId)

\* the loans that meet the payoff condition: Active, repaid in full
PayoffEligible ==
  {l \in AccountIds(accounts) :
     IsActiveLoan(l) /\ getBalance(l) >= accounts[l].principal}

\* runDailyTasks is entered: the disbursement pass reads the Active loans
runDailyTasks ==
  /\ pass = "idle"
  /\ runs < MaxRuns
  /\ pass' = NextPass(pass)
  /\ queue' = PassAccounts(NextPass(pass))
  /\ runs' = runs + 1
  /\ lastOp' = Op("runDailyTasks", 0, 0, 0, TRUE)
  /\ hist' = [hist EXCEPT !.repeat = (hist.lastDay = clock /\ hist.quiet),
                          !.clean = TRUE,
                          !.eligible = {},
                          !.repeatDone = FALSE]
  /\ UNCHANGED <<dbVars, clock, products, zone, first, connVars>>

\* one iteration of the loop of the pass in progress
SettleStep ==
  /\ pass # "idle"
  /\ queue # <<>>
  /\ txnSeq < MaxTxns
  /\ LET r == PassStep(pass, Head(queue))
     IN /\ accounts' = r.accounts
        /\ txns' = r.txns
        /\ txnSeq' = r.txnSeq
        /\ lastOp' = Op(pass, Head(queue), IF r.threw THEN 1 ELSE 0, 0, r.acted)
        /\ hist' = [hist EXCEPT
                      !.eligible = IF pass = "payoff" /\ Head(queue) \in PayoffEligible
                                   THEN @ \cup {Head(queue)} ELSE @,
                      !.settled = @ \cup {l \in AccountIds(accounts) :
                                            /\ accounts[l].status = ACTIVE
                                            /\ r.accounts[l].status \in {PAID_OFF, CLOSED}}]
  /\ queue' = Tail(queue)
  /\ UNCHANGED <<tidSeq, clock, products, zone, first, pass, runs, connVars>>

\* the interest a frequency charges per period, in cents:
\* Math.round(principal * rate / 100 / periods * 100) / 100
periodInterest(loan) ==
  IF loan.freq = "Bi-weekly" THEN RoundDiv(loan.principal * loan.rate, 2600)
  ELSE IF loan.freq = "Monthly" THEN RoundDiv(loan.principal * loan.rate, 1200)
  ELSE IF loan.freq = "Annual" THEN RoundDiv(loan.principal * loan.rate, 100)
  ELSE 0

\* a due-date test that does not wait for the first period to elapse
interestDueNoWait(loan, now) ==
  LET daysElapsed == DaysBetween(loan.startDate, now)
      elapsed == monthsElapsed(loan.startDate, now)
      isAnniversaryDay == now[3] = loan.startDate[3]
      isDue == \/ loan.freq = "Bi-weekly" /\ daysElapsed % 14 = 0
               \/ loan.freq = "Monthly" /\ isAnniversaryDay
               \/ loan.freq = "Annual" /\ elapsed % 12 = 0 /\ isAnniversaryDay
  IN IF isDue THEN periodInterest(loan) ELSE 0

\* processLoanInterest of part_008, the interest due today in cents, 0 when
\* today is no due date: bi-weekly daysElapsed > 0 && daysElapsed % 14 === 0,
\* monthly monthsElapsed > 0 && isAnniversaryDay, annually also
\* monthsElapsed % 12 === 0, at maturity never (the start date is read as a
\* local date)
interestDue_008(loan, now) ==
  LET daysElapsed == DaysBetween(loan.startDate, now)
      elapsed == monthsElapsed(loan.startDate, now)
      isAnniversaryDay == now[3] = loan.startDate[3]
      isDue == \/ loan.freq = "Bi-weekly" /\ daysElapsed > 0 /\ daysElapsed % 14 = 0
               \/ loan.freq = "Monthly" /\ elapsed > 0 /\ isAnniversaryDay
               \/ loan.freq = "Annual" /\ elapsed > 0 /\ elapsed % 12 = 0 /\ isAnniversaryDay
  IN IF isDue THEN periodInterest(loan) ELSE 0

\* loanService.processLoanInterest of part_008
processLoanInterest_008(loanId) ==
  IF ~IsActiveLoan(loanId) THEN Unchanged
  ELSE IF interestDue_008(accounts[loanId], today) <= 0 THEN Unchanged
  ELSE IF ChequingOf(accounts[loanId].user) = {} THEN Throws
  ELSE Result(accounts,
              InsertSystemTxn(txns, txnSeq, FirstChequing(accounts[loanId].user), WITHDRAWAL,
                              interestDue_008(accounts[loanId], today),
                              <<accounts[loanId].freq, " loan interest payment - Loan #", loanId>>),
              txnSeq + 1, TRUE)

\* what a pass does with one account when the loan service is that of part_008
PassStep_008(p, accountId) ==
  CASE p = "disburse" -> disburseLoan_008(accountId)
    [] p = "interest" -> processLoanInterest_008(accountId)
    [] p = "payoff" -> checkLoanPayoff_008(accountId)
    [] p = "maturity" -> checkLoanMaturity(accountId)
    [] p = "gic" -> matureGIC(accountId)

\* one iteration of the loop of the pass in progress, on the loan service of
\* part_008
SettleStep_008 ==
  /\ pass # "idle"
  /\ queue # <<>>
  /\ txnSeq < MaxTxns
  /\ LET r == PassStep_008(pass, Head(queue))
     IN /\ accounts' = r.accounts
        /\ txns' = r.txns
        /\ txnSeq' = r.txnSeq
        /\ lastOp' = Op(pass, Head(queue), IF r.threw THEN 1 ELSE 0, 0, r.acted)
        /\ hist' = [hist EXCEPT
                      !.settled = @ \cup {l \in AccountIds(accounts) :
                                            /\ accounts[l].status = ACTIVE
                                            /\ r.accounts[l].status \in {PAID_OFF, CLOSED}}]
  /\ queue' = Tail(queue)
  /\ UNCHANGED <<tidSeq, clock, products, zone, first, pass, runs, connVars>>

\* catch (error) { console.error(...) } inside the loop of a pass: where the
\* run stands after the call on the head of the list has thrown
afterThrowAborts(p, q) == <<"idle", <<>>>>

afterThrow(p, q) == <<p, Tail(q)>>

\* the call on the head of the list throws (a statement is rejected by the
\* storage; inside db.transaction the ROLLBACK leaves nothing written)
SettleThrows ==
  /\ pass # "idle"
  /\ queue # <<>>
  /\ pass' = afterThrow(pass, queue)[1]
  /\ queue' = afterThrow(pass, queue)[2]
  /\ lastOp' = Op(pass, Head(queue), 1, 0, FALSE)
  /\ UNCHANGED <<dbVars, clock, products, zone, first, runs, hist, connVars>>

\* the loop of a pass is over: the next pass begins and reads its accounts,
\* or, after the last pass, runDailyTasks returns
PassDone ==
  /\ pass # "idle"
  /\ queue = <<>>
  /\ pass' = NextPass(pass)
  /\ queue' = PassAccounts(NextPass(pass))
  /\ lastOp' = Op("PassDone", 0, 0, 0, NextPass(pass) = "idle")
  /\ hist' = IF NextPass(pass) = "idle"
             THEN [hist EXCEPT !.lastDay = clock,
                               !.lastDb = <<accounts, txns>>,
                               !.quiet = hist.clean,
                               !.repeatDone = hist.repeat /\ hist.clean,
                               !.same = (<<accounts, txns>> = hist.lastDb)]
             ELSE hist
  /\ UNCHANGED <<dbVars, clock, products, zone, first, runs, connVars>>

\* ------------------------------------------------------------------------
\* executeTransfer inside db.transaction, one statement at a time, on the one
\* connection every request shares
\* ------------------------------------------------------------------------
Procs == {1, 2}

NoJob == [src |-> 0, dst |-> 0, amount |-> 0, date |-> NoDate, tid |-> 0, base |-> <<>>]

\* what a ROLLBACK brings back
Snapshot == <<accounts, txns, txnSeq>>

At(p, position) == [ppc EXCEPT ![p] = position]

\* no first-access call in progress
NoCall == [user |-> 0, via |-> "", at |-> "idle"]

\* getAccountID.js createAccount: INSERT INTO Accounts (AccountTypeID, UserID,
\* Balance) VALUES (CHEQUING, ?, 0), StatusID left to its DEFAULT 1
MiddlewareRow(user) == Account(user, CHEQUING, PENDING, 0, 0, 0, NoDate, "")

\* the row a first-access call inserts
NewChequingRow(user, via) ==
  IF via = "getAccountID" THEN MiddlewareRow(user) ELSE ChequingRow(user)

\* first half of getOrCreateAccount(userId) and of getAccountID(userID,
\* 'Chequing'): the SELECT; the call returns the account found, or goes on
\* to the INSERT
lookupAccount(p, user, via) ==
  /\ first[p].at = "idle"
  /\ ppc[p] = "idle"
  /\ IF ChequingOf(user) # {}
     THEN /\ first' = first
          /\ lastOp' = Op(via, FirstChequing(user), p, 0, TRUE)
     ELSE /\ first' = [first EXCEPT ![p] = [user |-> user, via |-> via, at |-> "insert"]]
          /\ lastOp' = Op(via, 0, p, 0, FALSE)
  /\ hist' = Touched
  /\ UNCHANGED <<dbVars, clock, products, zone, schedVars, connVars>>

\* second half: the INSERT, and the call returns this.lastID
insertAccount(p) ==
  /\ first[p].at = "insert"
  /\ accounts' = Append(accounts, NewChequingRow(first[p].user, first[p].via))
  /\ first' = [first EXCEPT ![p] = NoCall]
  /\ lastOp' = Op(first[p].via, Len(accounts) + 1, p, 0, TRUE)
  /\ hist' = Touched
  /\ UNCHANGED <<txns, txnSeq, tidSeq, clock, products, zone, schedVars, connVars>>

\* POST /client/transfer up to the call of executeTransfer, which draws the
\* transferId and the date
startTransfer(p, source, destination, amount) ==
  /\ ppc[p] = "idle"
  /\ tidSeq < MaxTransfers
  /\ IF TransferAccepted(source, destination, amount)
     THEN /\ job' = [job EXCEPT ![p] = [src |-> source, dst |-> destination,
                                        amount |-> amount, date |-> today,
                                        tid |-> tidSeq + 1, base |-> txns]]
          /\ tidSeq' = tidSeq + 1
          /\ ppc' = At(p, "begin")
          /\ lastOp' = Op("startTransfer", source, destination, amount, TRUE)
     ELSE /\ UNCHANGED <<job, tidSeq, ppc>>
          /\ lastOp' = Op("startTransfer", source, destination, amount, FALSE)
  /\ hist' = Touched
  /\ UNCHANGED <<accounts, txns, txnSeq, clock, products, zone, first, schedVars, txnOpen, saved>>

\* await this.run('BEGIN TRANSACTION'): refused when a transaction is open on
\* the connection, and the refusal is caught
beginTransaction(p) ==
  /\ ppc[p] = "begin"
  /\ IF txnOpen
     THEN /\ ppc' = At(p, "rollback")
          /\ UNCHANGED <<txnOpen, saved>>
     ELSE /\ ppc' = At(p, "deposit")
          /\ txnOpen' = TRUE
          /\ saved' = Snapshot
  /\ lastOp' = Op("BEGIN", p, 0, 0, ~txnOpen)
  /\ hist' = Touched
  /\ UNCHANGED <<dbVars, clock, products, zone, first, schedVars, job>>

\* the first createTransaction of the callback
creditDestination(p) ==
  /\ ppc[p] = "deposit"
  /\ txnSeq < MaxTxns + 1
  /\ txns' = DepositLeg(txns, txnSeq, job[p].src, job[p].dst, job[p].amount,
                        job[p].date, job[p].tid)
  /\ txnSeq' = txnSeq + 1
  /\ ppc' = At(p, "withdraw")
  /\ lastOp' = Op("creditDestination", p, 0, 0, TRUE)
  /\ hist' = Touched
  /\ UNCHANGED <<accounts, tidSeq, clock, products, zone, first, schedVars, txnOpen, saved, job>>

\* a second insert that looks at the source's balance again and gives the
\* transfer up when it no longer covers the amount
debitSourceRevalidated(p) ==
  /\ ppc[p] = "withdraw"
  /\ txnSeq < MaxTxns + 1
  /\ IF getBalance(job[p].src) - (IF job[p].src = job[p].dst THEN job[p].amount ELSE 0)
          < job[p].amount
     THEN /\ ppc' = At(p, "rollback")
          /\ UNCHANGED <<txns, txnSeq>>
     ELSE /\ txns' = WithdrawalLeg(txns, txnSeq, job[p].src, job[p].dst, job[p].amount,
                                   job[p].date, job[p].tid)
          /\ txnSeq' = txnSeq + 1
          /\ ppc' = At(p, "commit")
  /\ lastOp' = Op("debitSource", p, 0, 0, TRUE)
  /\ hist' = Touched
  /\ UNCHANGED <<accounts, tidSeq, clock, products, zone, first, schedVars, txnOpen, saved, job>>

\* the second createTransaction of the callback; the ledger may hold a
\* deposit and the legs of two transfers
debitSource(p) ==
  /\ ppc[p] = "withdraw"
  /\ txnSeq < MaxTxns + 1
  /\ txns' = WithdrawalLeg(txns, txnSeq, job[p].src, job[p].dst, job[p].amount,
                           job[p].date, job[p].tid)
  /\ txnSeq' = txnSeq + 1
  /\ ppc' = At(p, "commit")
  /\ lastOp' = Op("debitSource", p, 0, 0, TRUE)
  /\ hist' = Touched
  /\ UNCHANGED <<accounts, tidSeq, clock, products, zone, first, schedVars, txnOpen, saved, job>>

\* an INSERT or the COMMIT is rejected by the storage: nothing is written and
\* the error is caught
statementFails(p) ==
  /\ ppc[p] \in {"deposit", "withdraw", "commit"}
  /\ ppc' = At(p, "rollback")
  /\ lastOp' = Op("statementFails", p, 0, 0, FALSE)
  /\ hist' = Touched
  /\ UNCHANGED <<dbVars, clock, products, zone, first, schedVars, txnOpen, saved, job>>

\* await this.run('COMMIT'): refused, and the refusal caught, when no
\* transaction is open; executeTransfer returns when it is accepted
commitTransaction(p) ==
  /\ ppc[p] = "commit"
  /\ IF txnOpen
     THEN /\ txnOpen' = FALSE
          /\ saved' = <<>>
          /\ ppc' = At(p, "idle")
          /\ job' = [job EXCEPT ![p] = NoJob]
     ELSE /\ ppc' = At(p, "rollback")
          /\ UNCHANGED <<txnOpen, saved, job>>
  /\ lastOp' = Op("COMMIT", p, 0, 0, txnOpen)
  /\ hist' = Touched
  /\ UNCHANGED <<dbVars, clock, products, zone, first, schedVars>>

\* catch (error) { await this.run('ROLLBACK'); throw error; }
rollbackTransaction(p) ==
  /\ ppc[p] = "rollback"
  /\ LET left == afterRollback(txnOpen, saved, Snapshot)
     IN /\ accounts' = left[1]
        /\ txns' = left[2]
        /\ txnSeq' = left[3]
        /\ lastOp' = Op("ROLLBACK", p, Len(txns) - Len(left[2]), 0, txnOpen)
  /\ txnOpen' = FALSE
  /\ saved' = <<>>
  /\ ppc' = At(p, "idle")
  /\ job' = [job EXCEPT ![p] = NoJob]
  /\ hist' = Touched
  /\ UNCHANGED <<tidSeq, clock, products, zone, first, schedVars>>

\* accountService.getBalance asked by another request
balanceQuery(accountId) ==
  /\ lastOp' = Op("getBalance", accountId, 0, getBalance(accountId), TRUE)
  /\ hist' = Touched
  /\ UNCHANGED <<dbVars, clock, products, zone, first, schedVars, connVars>>

\* ------------------------------------------------------------------------
\* A maturity step in its two halves: checkLoanMaturity and matureGIC read
\* the row, await the balance and the Chequing account, and then write
\* ------------------------------------------------------------------------
\* first half, up to the last await before the writes: the step returns
\* false unless the row is Active and matured; otherwise it holds the
\* Chequing account and the amount it is about to post
readMatured(p, accountId) ==
  /\ ppc[p] = "idle"
  /\ accounts[accountId].type \in {LOAN, INVESTMENT}
  /\ ChequingOf(accounts[accountId].user) # {}
  /\ IF /\ accounts[accountId].status = ACTIVE
        /\ hasReachedMaturity(accounts[accountId].startDate, accounts[accountId].term, today)
     THEN /\ job' = [job EXCEPT ![p] =
                       [NoJob EXCEPT !.src = accountId,
                                     !.dst = FirstChequing(accounts[accountId].user),
                                     !.amount = IF accounts[accountId].type = LOAN
                                                THEN accounts[accountId].principal
                                                       - getBalance(accountId)
                                                ELSE calculateGICMaturityValue(accounts[accountId])]]
          /\ ppc' = At(p, "settle")
     ELSE UNCHANGED <<job, ppc>>
  /\ lastOp' = Op("readMatured", accountId, p, 0, ppc'[p] = "settle")
  /\ UNCHANGED <<dbVars, clock, products, zone, first, schedVars, txnOpen, saved, hist>>

\* second half, inside db.transaction: the system entry (for a loan only when
\* something remains to pay) and UPDATE Accounts SET StatusID = CLOSED
writeMatured(p) ==
  /\ ppc[p] = "settle"
  /\ txnSeq < MaxTxns
  /\ IF accounts[job[p].src].type = LOAN /\ job[p].amount <= 0
     THEN UNCHANGED <<txns, txnSeq>>
     ELSE /\ txns' = InsertSystemTxn(txns, txnSeq, job[p].dst,
                                     IF accounts[job[p].src].type = LOAN THEN WITHDRAWAL
                                     ELSE DEPOSIT,
                                     job[p].amount, <<"maturity", job[p].src>>)
          /\ txnSeq' = txnSeq + 1
  /\ accounts' = SetStatus(accounts, job[p].src, CLOSED)
  /\ ppc' = At(p, "idle")
  /\ job' = [job EXCEPT ![p] = NoJob]
  /\ lastOp' = Op("writeMatured", job[p].src, p, job[p].amount, TRUE)
  /\ UNCHANGED <<tidSeq, clock, products, zone, first, schedVars, txnOpen, saved, hist>>

\* ------------------------------------------------------------------------
\* Loan payment quotes (financial.service.js); amounts are exact fractions
\* <<numerator, denominator>> of a cent, the code computing them unrounded
\* ------------------------------------------------------------------------
\* financialService.calculateMonthlyPayment: principal / termMonths at rate 0,
\* otherwise principal * r * (1 + r)^n / ((1 + r)^n - 1) with r = rate / 1200,
\* written a / b in lowest terms
calculateMonthlyPayment(principal, annualRate, termMonths) ==
  LET g == CHOOSE d \in 1..1200 :
             /\ annualRate % d = 0 /\ 1200 % d = 0
             /\ \A e \in (d + 1)..1200 : ~(annualRate % e = 0 /\ 1200 % e = 0)
      a == annualRate \div g
      b == 1200 \div g
  IN IF annualRate = 0 THEN <<principal, termMonths>>
     ELSE <<principal * a * Pow(a + b, termMonths),
            b * (Pow(a + b, termMonths) - Pow(b, termMonths))>>

\* financialService.calculatePaymentByFrequency: the switch on the frequency
calculatePaymentByFrequency(principal, annualRate, termMonths, frequency) ==
  LET monthlyPayment == calculateMonthlyPayment(principal, annualRate, termMonths)
  IN CASE frequency = "Monthly" -> monthlyPayment
       [] frequency = "Biweekly" -> <<monthlyPayment[1] * 12, monthlyPayment[2] * 26>>
       [] frequency = "Weekly" -> <<monthlyPayment[1] * 12, monthlyPayment[2] * 52>>
       [] OTHER -> monthlyPayment

\* loanService.calculateLoanPayment(loan): the quote for a loan row
calculateLoanPayment(loanId) ==
  /\ IsLoan(loanId)
  /\ lastOp' = Op("calculateLoanPayment", loanId, 0,
                  calculatePaymentByFrequency(accounts[loanId].principal,
                                              accounts[loanId].rate,
                                              accounts[loanId].term,
                                              accounts[loanId].freq), TRUE)
  /\ UNCHANGED <<dbVars, clock, products, zone, first, schedVars, connVars, hist>>

\* ------------------------------------------------------------------------
\* Initial state and specifications
\* ------------------------------------------------------------------------
\* the connection is open, no transaction begun, no request being served
InitConn ==
  /\ txnOpen = FALSE
  /\ saved = <<>>
  /\ ppc = [p \in Procs |-> "idle"]
  /\ job = [p \in Procs |-> NoJob]
  /\ first = [p \in Procs |-> NoCall]

\* every user has logged in once, which created the Chequing account
Init ==
  /\ accounts = [u \in 1..Cardinality(Users) |-> ChequingRow(u)]
  /\ txns = <<>>
  /\ txnSeq = 0
  /\ tidSeq = 0
  /\ clock = 1
  /\ pass = "idle"
  /\ queue = <<>>
  /\ runs = 0
  /\ lastOp = Op("Init", 0, 0, 0, TRUE)
  /\ hist = NoHist
  /\ InitConn
  /\ products = <<>>
  /\ zone = "UTC"

\* the ledger routes, one request at a time
Requests ==
  \/ \E a \in AccountIds(accounts), ty \in TxnTypes, amt \in Amounts : addTransaction(a, ty, amt)
  \/ \E id \in TxnIds : approveTransaction(id)
  \/ \E id \in TxnIds : deleteTransaction(id)
  \/ \E src \in AccountIds(accounts), dst \in AccountIds(accounts), amt \in Amounts :
       transfer(src, dst, amt)

\* the loan routes of the client and of the admin
LoanRequests ==
  \/ \E u \in Users, amt \in Principals, r \in Rates, t \in Terms, f \in Freqs,
        d \in {Calendar[i] : i \in 1..2} :
       LoansOf(u) = {} /\ createLoanRequest(u, amt, r, t, d, f)
  \/ \E a \in AccountIds(accounts) : approveLoan(a)
  \/ \E a \in AccountIds(accounts) : denyLoan(a)
  \/ \E a \in AccountIds(accounts), st \in {ACTIVE, PAID_OFF} : updateLoan(a, st)

\* the daily tasks, one awaited call at a time
Scheduler ==
  \/ runDailyTasks
  \/ SettleStep
  \/ PassDone

\* repayments: a client moves money from the Chequing account into a loan
Transfers ==
  \E src \in AccountIds(accounts), dst \in AccountIds(accounts), amt \in Principals :
    /\ accounts[src].type = CHEQUING
    /\ accounts[dst].type = LOAN
    /\ transfer(src, dst, amt)

\* loans, repayments and the daily tasks over the calendar; requests are
\* served between two awaited calls of a run
Next ==
  \/ LoanRequests
  \/ Transfers
  \/ Tick
  \/ Scheduler

\* the ledger and the balances on one day
NextLedger ==
  \/ Requests
  \/ \E u \in Users, amt \in Principals, r \in Rates, t \in Terms, f \in Freqs :
       LoansOf(u) = {} /\ createLoanRequest(u, amt, r, t, today, f)

\* a client deposits, asks for a loan and repays into it
Funding ==
  \/ \E a \in AccountIds(accounts), amt \in Amounts : addTransaction(a, DEPOSIT, amt)
  \/ \E u \in Users, amt \in Principals, r \in Rates, t \in Terms, f \in Freqs :
       LoansOf(u) = {} /\ createLoanRequest(u, amt, r, t, today, f)

\* one request at a time, the storage failing at will inside a transfer
NextSolo ==
  \/ ppc[1] = "idle" /\ Funding
  \/ \E src \in AccountIds(accounts), dst \in AccountIds(accounts), amt \in Amounts :
       startTransfer(1, src, dst, amt)
  \/ beginTransaction(1)
  \/ creditDestination(1)
  \/ debitSource(1)
  \/ statementFails(1)
  \/ commitTransaction(1)
  \/ rollbackTransaction(1)

\* requests served concurrently: their statements interleave on the connection
NextConc ==
  \/ Funding
  \/ \E p \in Procs, src \in AccountIds(accounts), dst \in AccountIds(accounts),
        amt \in Amounts : startTransfer(p, src, dst, amt)
  \/ \E p \in Procs : beginTransaction(p)
  \/ \E p \in Procs : creditDestination(p)
  \/ \E p \in Procs : debitSource(p)
  \/ \E p \in Procs : commitTransaction(p)
  \/ \E p \in Procs : rollbackTransaction(p)
  \/ \E a \in AccountIds(accounts) : balanceQuery(a)

\* the calls of a run return or throw
RunSteps ==
  \/ SettleStep
  \/ SettleThrows
  \/ PassDone

\* the settlement runs of one day over several loans, any call of which may
\* throw
NextRun ==
  \/ \E u \in Users, amt \in Principals, r \in Rates, t \in Terms, f \in Freqs :
       Cardinality(LoansOf(u)) < MaxLoans /\ createLoanRequest(u, amt, r, t, today, f)
  \/ \E a \in AccountIds(accounts) :
       IsLoan(a) /\ accounts[a].status = PENDING /\ approveLoan(a)
  \/ runDailyTasks
  \/ RunSteps

\* every awaited call of a run in progress returns or throws in the end
SpecRun == Init /\ [][NextRun]_vars /\ WF_vars(RunSteps)

\* a database that already holds a GIC product and an Active investment in it
\* bought a month before or on the first day of the Calendar (the database
\* file outlives the
\* server: db.js creates its tables IF NOT EXISTS and migrates the Investment
\* rows it finds)
InitGIC ==
  /\ products \in {<<Product(n, r, t, m)>> :
                     n \in ProductNames, r \in ProductRates, t \in ProductTerms,
                     m \in Minimums}
  /\ accounts \in {<<ChequingRow(1), GICRow(1, p, 1, d)>> :
                     p \in Investments, d \in {<<2024, 12, 28>>, Calendar[1]}}
  /\ txns = <<>>
  /\ txnSeq = 0
  /\ tidSeq = 0
  /\ clock = 1
  /\ pass = "idle"
  /\ queue = <<>>
  /\ runs = 0
  /\ lastOp = Op("Init", 0, 0, 0, TRUE)
  /\ hist = NoHist
  /\ InitConn
  /\ zone = "UTC"

\* the GIC product routes of the admin
ProductRequests ==
  \/ \E n \in ProductNames, r \in ProductRates, t \in ProductTerms, m \in Minimums :
       createGICProduct(n, r, t, m)
  \/ \E p \in ProductIds, n \in ProductNames, r \in ProductRates, t \in ProductTerms,
        m \in Minimums :
       updateGICProduct(p, n, r, t, m)
  \/ \E p \in ProductIds : deleteGICProduct(p)

\* the purchase route of the client; the storage may reject either write
PurchaseRequests ==
  \E u \in Users, a \in AccountIds(accounts), p \in 1..MaxProducts, amt \in Amounts,
     fault \in {"none", "account", "withdrawal"} :
    purchaseGIC(u, a, p, amt, fault)

\* GIC products and purchases funded by approved deposits
NextGIC ==
  \/ ProductRequests
  \/ PurchaseRequests
  \/ \E a \in ChequingOf(1), amt \in Amounts : addTransaction(a, DEPOSIT, amt)
  \/ \E id \in TxnIds : approveTransaction(id)

SpecGIC == Init /\ [][NextGIC]_vars

\* an investment held while its product is edited or deleted and the days and
\* the settlement runs go by
NextMature ==
  \/ \E p \in ProductIds, n \in ProductNames, r \in ProductRates, t \in ProductTerms,
        m \in Minimums :
       updateGICProduct(p, n, r, t, m)
  \/ \E p \in ProductIds : deleteGICProduct(p)
  \/ Tick
  \/ Scheduler

SpecMature == InitGIC /\ [][NextMature]_vars

\* the server in either zone, loans that start on any day of the Calendar
InitZone ==
  /\ accounts = [u \in 1..Cardinality(Users) |-> ChequingRow(u)]
  /\ txns = <<>>
  /\ txnSeq = 0
  /\ tidSeq = 0
  /\ clock = 1
  /\ pass = "idle"
  /\ queue = <<>>
  /\ runs = 0
  /\ lastOp = Op("Init", 0, 0, 0, TRUE)
  /\ hist = NoHist
  /\ InitConn
  /\ products = <<>>
  /\ zone \in Zones

NextZone ==
  \/ \E u \in Users, amt \in Principals, r \in Rates, t \in Terms, f \in Freqs,
        d \in {Calendar[i] : i \in 1..Len(Calendar)} :
       LoansOf(u) = {} /\ createLoanRequest(u, amt, r, t, d, f)
  \/ \E a \in AccountIds(accounts) :
       IsLoan(a) /\ accounts[a].status = PENDING /\ approveLoan(a)
  \/ Tick
  \/ Scheduler

SpecZone == InitZone /\ [][NextZone]_vars

\* loans requested for the day of the request and approved on that day
NextStartDay ==
  \/ \E u \in Users, amt \in Principals, r \in Rates, t \in Terms, f \in Freqs :
       LoansOf(u) = {} /\ createLoanRequest(u, amt, r, t, today, f)
  \/ \E a \in AccountIds(accounts) :
       /\ IsLoan(a) /\ accounts[a].status = PENDING /\ accounts[a].startDate = today
       /\ approveLoan(a)
  \/ Tick
  \/ Scheduler

SpecStartDay == InitZone /\ [][NextStartDay]_vars

\* users who have not yet had any account opened
InitFirst ==
  /\ accounts = <<>>
  /\ txns = <<>>
  /\ txnSeq = 0
  /\ tidSeq = 0
  /\ clock = 1
  /\ pass = "idle"
  /\ queue = <<>>
  /\ runs = 0
  /\ lastOp = Op("Init", 0, 0, 0, TRUE)
  /\ hist = NoHist
  /\ InitConn
  /\ products = <<>>
  /\ zone = "UTC"

\* first-access calls of either kind served concurrently, and the deposits
\* the client posts on the account the call returned
NextFirst ==
  \/ \E p \in Procs, u \in Users, via \in {"getOrCreateAccount", "getAccountID"} :
       lookupAccount(p, u, via)
  \/ \E p \in Procs : insertAccount(p)
  \/ \E a \in AccountIds(accounts), amt \in Amounts : addTransaction(a, DEPOSIT, amt)

SpecFirst == InitFirst /\ [][NextFirst]_vars

\* POST /client/loan/add hands req.body.amount to createLoanRequest as it is:
\* the amounts a client can ask for, in cents
LoanAmounts == {0 - 100, 0, 100}

\* loans asked for with any amount, approved, and the daily runs
NextAmount ==
  \/ \E u \in Users, amt \in LoanAmounts, r \in Rates, t \in Terms, f \in Freqs :
       LoansOf(u) = {} /\ createLoanRequest(u, amt, r, t, today, f)
  \/ \E a \in AccountIds(accounts) :
       IsLoan(a) /\ accounts[a].status = PENDING /\ approveLoan(a)
  \/ Tick
  \/ Scheduler

SpecAmount == Init /\ [][NextAmount]_vars

\* the payment frequencies of the loan form that the settlement tells apart
LoanFreqs == {"Monthly", "At Maturity"}

\* a loan over its term: requested for the day of the request, approved,
\* repaid in part or in full out of the Chequing account, and the daily runs
NextTerm ==
  \/ \E u \in Users, amt \in Principals, r \in Rates, t \in Terms, f \in LoanFreqs :
       LoansOf(u) = {} /\ clock = 1 /\ createLoanRequest(u, amt, r, t, today, f)
  \/ \E a \in AccountIds(accounts) :
       IsLoan(a) /\ accounts[a].status = PENDING /\ approveLoan(a)
  \/ \E src \in AccountIds(accounts), dst \in AccountIds(accounts), amt \in Amounts :
       /\ accounts[src].type = CHEQUING
       /\ accounts[dst].type = LOAN
       /\ transfer(src, dst, amt)
  \/ Tick
  \/ Scheduler

SpecTerm == Init /\ [][NextTerm]_vars

\* the loan service of part_008 under the daily runs: a client deposits, asks
\* for a loan, repays into it
NextPayoff ==
  \/ \E a \in ChequingOf(1), amt \in Principals : addTransaction(a, DEPOSIT, amt)
  \/ \E u \in Users, amt \in Principals, r \in Rates, t \in Terms, f \in LoanFreqs,
        d \in {Calendar[i] : i \in 1..2} :
       LoansOf(u) = {} /\ createLoanRequest(u, amt, r, t, d, f)
  \/ \E a \in AccountIds(accounts) :
       IsLoan(a) /\ accounts[a].status = PENDING /\ approveLoan(a)
  \/ \E src \in AccountIds(accounts), dst \in AccountIds(accounts), amt \in Amounts :
       /\ accounts[src].type = CHEQUING
       /\ accounts[dst].type = LOAN
       /\ transfer(src, dst, amt)
  \/ Tick
  \/ runDailyTasks
  \/ SettleStep_008
  \/ PassDone

SpecPayoff == Init /\ [][NextPayoff]_vars

\* the payment frequencies of the PaymentFrequencies table
AllFreqs == {"Bi-weekly", "Monthly", "Annual", "At Maturity"}

\* start dates a year, a month, and 14 or 28 days before days of the Calendar
DueStarts ==
  { <<2024, 1, 28>>, <<2024, 2, 28>>, <<2024, 12, 28>>, <<2025, 1, 14>>,
    <<2025, 1, 28>>, <<2025, 1, 31>>, <<2025, 2, 14>>, <<2025, 2, 15>> }

\* a database that already holds an approved two-year loan of 100.00 at 12%
\* of any frequency and start date
InitDue ==
  /\ accounts \in {<<ChequingRow(1), Account(1, LOAN, ACTIVE, 10000, 12, 24, d, f)>> :
                     d \in DueStarts, f \in AllFreqs}
  /\ txns = <<>>
  /\ txnSeq = 0
  /\ tidSeq = 0
  /\ clock = 1
  /\ pass = "idle"
  /\ queue = <<>>
  /\ runs = 0
  /\ lastOp = Op("Init", 0, 0, 0, TRUE)
  /\ hist = NoHist
  /\ InitConn
  /\ products = <<>>
  /\ zone = "UTC"

\* the days go by and the daily runs call the loan service of part_008
NextDue ==
  \/ Tick
  \/ runDailyTasks
  \/ SettleStep_008
  \/ PassDone

SpecDue == InitDue /\ [][NextDue]_vars

SpecSolo == Init /\ [][NextSolo]_vars

SpecConc == Init /\ [][NextConc]_vars

\* the last day of 2025 the daily clock reaches (April 1st)
LastDay == 91

\* the terms, in months, of the loans followed day by day
DailyTerms == {1, 2}

\* a database that holds an approved Monthly loan of 100.00 at 12% starting
\* today, a day of January 2025
InitDaily ==
  /\ \E n \in 1..31, t \in DailyTerms :
       /\ clock = Len(Calendar) + n
       /\ accounts = <<ChequingRow(1),
                       Account(1, LOAN, ACTIVE, 10000, 12, t, DateOfDay(n), "Monthly")>>
  /\ txns = <<>>
  /\ txnSeq = 0
  /\ tidSeq = 0
  /\ pass = "idle"
  /\ queue = <<>>
  /\ runs = 0
  /\ lastOp = Op("Init", 0, 0, 0, TRUE)
  /\ hist = NoHist
  /\ InitConn
  /\ products = <<>>
  /\ zone = "UTC"

\* midnight: the day's run has returned and the next calendar day begins
Midnight ==
  /\ clock > Len(Calendar)
  /\ clock < Len(Calendar) + LastDay
  /\ pass = "idle"
  /\ runs = 1
  /\ clock' = clock + 1
  /\ runs' = 0
  /\ lastOp' = Op("Midnight", 0, 0, 0, TRUE)
  /\ hist' = Touched
  /\ UNCHANGED <<dbVars, pass, queue, connVars, products, zone, first>>

\* cron '0 0 * * *': runDailyTasks runs once on every calendar day and calls
\* the loan service of part_008
NextDaily ==
  \/ Midnight
  \/ runs = 0 /\ runDailyTasks
  \/ SettleStep_008
  \/ PassDone

SpecDaily == InitDaily /\ [][NextDaily]_vars

\* a database whose one user holds an Active loan and an Active investment
\* and no Chequing account (the row was lost: the database file outlives the
\* server); the daily runs go by, and the user's next visit creates the
\* Chequing account
InitOrphan ==
  /\ products \in {<<Product(n, r, t, m)>> :
                     n \in ProductNames, r \in ProductRates, t \in ProductTerms,
                     m \in Minimums}
  /\ accounts \in {<<Account(1, LOAN, ACTIVE, p, r, t, d, f), GICRow(1, i, 1, g)>> :
                     p \in Principals, r \in Rates, t \in Terms, f \in Freqs,
                     i \in Investments,
                     d \in {<<2024, 12, 28>>, Calendar[1], Calendar[2]},
                     g \in {<<2024, 12, 28>>, Calendar[1]}}
  /\ txns = <<>>
  /\ txnSeq = 0
  /\ tidSeq = 0
  /\ clock = 1
  /\ pass = "idle"
  /\ queue = <<>>
  /\ runs = 0
  /\ lastOp = Op("Init", 0, 0, 0, TRUE)
  /\ hist = NoHist
  /\ InitConn
  /\ zone = "UTC"

NextOrphan ==
  \/ \E via \in {"getOrCreateAccount", "getAccountID"} : lookupAccount(1, 1, via)
  \/ insertAccount(1)
  \/ Tick
  \/ Scheduler

SpecOrphan == InitOrphan /\ [][NextOrphan]_vars

\* a matured Active loan and a matured Active investment of one client; two
\* invocations of the maturity steps (the run of the day and a second run
\* started by hand or by a second server process on the same database file)
\* overlap with each other and with the loan requests of the admin
InitStale ==
  /\ products \in {<<Product(n, r, t, m)>> :
                     n \in ProductNames, r \in ProductRates, t \in ProductTerms,
                     m \in Minimums}
  /\ accounts \in {<<ChequingRow(1),
                      Account(1, LOAN, ACTIVE, p, r, t, <<2024, 11, 28>>, f),
                      GICRow(1, i, 1, <<2024, 11, 28>>)>> :
                     p \in Principals, r \in Rates, t \in Terms, f \in Freqs,
                     i \in Investments}
  /\ txns = <<>>
  /\ txnSeq = 0
  /\ tidSeq = 0
  /\ clock = 1
  /\ pass = "idle"
  /\ queue = <<>>
  /\ runs = 0
  /\ lastOp = Op("Init", 0, 0, 0, TRUE)
  /\ hist = NoHist
  /\ InitConn
  /\ zone = "UTC"

NextStale ==
  \/ \E p \in Procs, a \in AccountIds(accounts) : readMatured(p, a)
  \/ \E p \in Procs : writeMatured(p)
  \/ \E a \in AccountIds(accounts) : IsLoan(a) /\ denyLoan(a)
  \/ \E a \in AccountIds(accounts), st \in {ACTIVE, PAID_OFF} : updateLoan(a, st)

SpecStale == InitStale /\ [][NextStale]_vars

\* the frequencies a quote is asked for: the names the switch knows and the
\* names the loan form and the PaymentFrequencies table use
QuoteFreqs == {"Monthly", "Biweekly", "Weekly", "Bi-weekly", "Annual", "At Maturity"}

\* a loan of any principal, rate, term and frequency, and its quote
InitQuote ==
  /\ accounts \in {<<ChequingRow(1), Account(1, LOAN, PENDING, p, r, t, Calendar[1], f)>> :
                     p \in {100, 1000}, r \in {0, 12, 24}, t \in {1, 2}, f \in QuoteFreqs}
  /\ txns = <<>>
  /\ txnSeq = 0
  /\ tidSeq = 0
  /\ clock = 1
  /\ pass = "idle"
  /\ queue = <<>>
  /\ runs = 0
  /\ lastOp = Op("Init", 0, 0, 0, TRUE)
  /\ hist = NoHist
  /\ InitConn
  /\ products = <<>>
  /\ zone = "UTC"

NextQuote == \E l \in AccountIds(accounts) : calculateLoanPayment(l)

SpecQuote == InitQuote /\ [][NextQuote]_vars

SpecLedger == Init /\ [][NextLedger]_vars

Spec == Init /\ [][Next]_vars

\* ------------------------------------------------------------------------
\* Properties of the internal transfer
\* ------------------------------------------------------------------------
\* the entries a request has added to the ledger it started from
NewEntries(base, ledger) == SubSeq(ledger, Len(base) + 1, Len(ledger))

\* the ledger holds the two legs of the transfer on top of the one it started from
BothLegsPosted(j, ledger) ==
  LET new == NewEntries(j.base, ledger)
  IN /\ Len(ledger) = Len(j.base) + 2
     /\ SubSeq(ledger, 1, Len(j.base)) = j.base
     /\ \E w \in 1..2, d \in 1..2 :
          /\ w # d
          /\ new[w].type = WITHDRAWAL /\ new[w].acct = j.src
          /\ new[d].type = DEPOSIT /\ new[d].acct = j.dst
     /\ \A i \in 1..2 :
          /\ new[i].status = APPROVED
          /\ new[i].amount = j.amount
          /\ new[i].tid = new[1].tid
          /\ new[i].date = new[1].date

\* C1: when executeTransfer returns successfully exactly two new Approved
\* entries exist, a Withdrawal on the source and a Deposit on the destination
\* with the same transferId, amount and date; when an insert or the commit
\* fails no new entry persists
C1_AllOrNothing ==
  [][\A p \in Procs :
       /\ ppc[p] = "commit" /\ ppc'[p] = "idle" => BothLegsPosted(job[p], txns')
       /\ ppc[p] = "rollback" /\ ppc'[p] = "idle" => txns' = job[p].base]_vars

\* a transfer has failed after its first leg was written, and the ROLLBACK
\* has taken the leg back
C1_Witness ==
  /\ lastOp.op = "ROLLBACK" /\ lastOp.ok
  /\ lastOp.other >= 1
  /\ txns # <<>>

\* no request is inside db.transaction and no transaction is open
Quiescent == (\A p \in Procs : ppc[p] = "idle") /\ ~txnOpen

\* the legs of a transfer present on the ledger
Legs(ledger, transferId) == {i \in 1..Len(ledger) : ledger[i].tid = transferId}

\* C2: whatever the interleaving on the shared connection, no quiescent state
\* holds exactly one leg of a transfer
C2_NoHalfTransfer ==
  Quiescent => \A t \in 1..tidSeq : Cardinality(Legs(txns, t)) \in {0, 2}

\* the ledger without the legs of a transfer
WithoutLegs(transferId) ==
  LET other(t) == t.tid # transferId IN SelectSeq(txns, other)

\* the transfer of process p is in progress
InProgress(p) == ppc[p] \in {"begin", "deposit", "withdraw", "commit"}

\* C3: a balance query answered while a transfer is in progress finds the
\* source and the destination either both as before the transfer or both as
\* after its two legs, never with one leg only
C3_NoPartialRead ==
  lastOp.op = "getBalance" =>
    \A p \in Procs :
      InProgress(p) /\ lastOp.acct \in {job[p].src, job[p].dst} =>
        LET before == WithoutLegs(job[p].tid)
        IN \/ /\ getBalance(job[p].src) = BalanceIn(before, job[p].src)
              /\ getBalance(job[p].dst) = BalanceIn(before, job[p].dst)
           \/ /\ getBalance(job[p].src) = BalanceIn(before, job[p].src) - job[p].amount
              /\ getBalance(job[p].dst) = BalanceIn(before, job[p].dst) + job[p].amount

\* ------------------------------------------------------------------------
\* Properties of the first access
\* ------------------------------------------------------------------------
\* C20: whatever first-access calls have been made for a user and however they
\* were interleaved, the user never has a second Chequing account, and has one
\* as soon as a call has returned
C20_OneChequing ==
  \A u \in Users :
    /\ Cardinality(ChequingOf(u)) <= 1
    /\ lastOp.op \in {"getOrCreateAccount", "getAccountID"} /\ lastOp.ok =>
         ChequingOf(u) # {}

\* ------------------------------------------------------------------------
\* Properties of the ledger and of the balances
\* ------------------------------------------------------------------------
\* the sum of the balances of all accounts, on a ledger
TotalIn(ledger) == SumSeq([i \in 1..Len(accounts) |-> BalanceIn(ledger, i)])

\* a step in which a transfer between two different accounts succeeded
TransferSucceeded ==
  lastOp'.op = "transfer" /\ lastOp'.ok /\ lastOp'.acct # lastOp'.other

\* C4: a successful transfer of A from X to Y, X different from Y, lowers
\* getBalance(X) by exactly A, raises getBalance(Y) by exactly A and leaves
\* the sum of all balances as it was
C4_Conservation ==
  [][TransferSucceeded =>
       /\ BalanceIn(txns', lastOp'.acct) = BalanceIn(txns, lastOp'.acct) - lastOp'.amount
       /\ BalanceIn(txns', lastOp'.other) = BalanceIn(txns, lastOp'.other) + lastOp'.amount
       /\ TotalIn(txns') = TotalIn(txns)]_vars

\* 50 has been moved out of a chequing account that held 100
C4_Witness ==
  /\ lastOp.op = "transfer" /\ lastOp.ok /\ lastOp.acct # lastOp.other
  /\ lastOp.amount = 50
  /\ getBalance(lastOp.acct) = 50
  /\ getBalance(lastOp.other) = 50

\* the amounts of the entries of one type on an account
SumOfType(accountId, type) ==
  SumSeq([i \in 1..Len(txns) |->
            IF txns[i].acct = accountId /\ txns[i].type = type THEN txns[i].amount ELSE 0])

\* C5: for every account of every reachable ledger, entries of type Transfer
\* included, getBalance is the sum of its Deposits minus the sum of its
\* Withdrawals, and 0 when it has no entry
C5_Derivation ==
  \A a \in AccountIds(accounts) :
    getBalance(a) = SumOfType(a, DEPOSIT) - SumOfType(a, WITHDRAWAL)

\* the amounts of one type among the Approved entries of an account
ApprovedOfType(accountId, type) ==
  SumSeq([i \in 1..Len(txns) |->
            IF /\ txns[i].acct = accountId
               /\ txns[i].type = type
               /\ txns[i].status = APPROVED
            THEN txns[i].amount ELSE 0])

\* C12: for every account of every reachable ledger, getApprovedBalance is the
\* sum of its Approved Deposits minus the sum of its Approved Withdrawals
C12_ApprovedOnly ==
  \A a \in AccountIds(accounts) :
    getApprovedBalance(a) = ApprovedOfType(a, DEPOSIT) - ApprovedOfType(a, WITHDRAWAL)

\* ------------------------------------------------------------------------
\* Properties of the GIC purchase
\* ------------------------------------------------------------------------
\* the available balance: the net of the Approved entries of the account
ApprovedNet(accountId) ==
  ApprovedOfType(accountId, DEPOSIT) - ApprovedOfType(accountId, WITHDRAWAL)

\* the request meets the three conditions of a purchase
Purchasable(chequingAccountId, productId, amount) ==
  /\ HasProduct(productId)
  /\ amount >= products[productId].minimum
  /\ amount <= ApprovedNet(chequingAccountId)

\* C13: a purchase succeeds exactly when the product exists, the amount is at
\* least its minimum and at most the net of the Approved entries of the
\* Chequing account; a success adds one Active Investment account of that
\* principal and one Approved Withdrawal of the amount on the Chequing account
C13_PurchaseExactly ==
  [][lastOp'.op = "purchaseGIC" =>
       /\ lastOp'.ok <=> Purchasable(lastOp'.acct, lastOp'.other, lastOp'.amount)
       /\ lastOp'.ok =>
            /\ Len(accounts') = Len(accounts) + 1
            /\ SubSeq(accounts', 1, Len(accounts)) = accounts
            /\ accounts'[Len(accounts')].type = INVESTMENT
            /\ accounts'[Len(accounts')].status = ACTIVE
            /\ accounts'[Len(accounts')].principal = lastOp'.amount
            /\ Len(txns') = Len(txns) + 1
            /\ SubSeq(txns', 1, Len(txns)) = txns
            /\ txns'[Len(txns')].acct = lastOp'.acct
            /\ txns'[Len(txns')].type = WITHDRAWAL
            /\ txns'[Len(txns')].amount = lastOp'.amount
            /\ txns'[Len(txns')].status = APPROVED]_vars

\* a request for a purchase did not complete
PurchaseFailed == lastOp'.op = "purchaseGIC" /\ ~lastOp'.ok

CompoundValue(principal, rate, term) ==
  LET n == principal * Pow(1200 + rate, term)
      d == Pow(1200, term)
      q == n \div d
  IN IF 2 * (n - q * d) >= d THEN q + 1 ELSE q

\* the maturity payouts on a ledger
MaturityDeposits(ledger) ==
  {i \in 1..Len(ledger) : IsPrefix(<<"[SYSTEM] ", "GIC maturity - ">>, ledger[i].desc)}

\* one iteration of the GIC pass is made, on the account at the head of the list
GICPassStep ==
  /\ pass = "gic"
  /\ queue # <<>>
  /\ queue' = Tail(queue)

\* an Active investment whose maturity date is today or earlier
Matured(gicId) ==
  /\ gicId \in AccountIds(accounts)
  /\ accounts[gicId].type = INVESTMENT
  /\ accounts[gicId].status = ACTIVE
  /\ hasReachedMaturity(accounts[gicId].startDate, accounts[gicId].term, today)

ProductEdited == lastOp'.op \in {"updateGICProduct", "deleteGICProduct"}

\* C16: editing or deleting a product changes no account and no ledger entry,
\* no step changes the principal, the rate or the term of an investment, and
\* the payout at maturity is worked out from the rate and the term of the
\* investment itself, whatever its product has become
C16_TermsSnapshotted ==
  [][/\ ProductEdited => accounts' = accounts /\ txns' = txns
     /\ \A a \in AccountIds(accounts) :
          accounts[a].type = INVESTMENT =>
            /\ accounts'[a].principal = accounts[a].principal
            /\ accounts'[a].rate = accounts[a].rate
            /\ accounts'[a].term = accounts[a].term
     /\ GICPassStep /\ Matured(Head(queue)) =>
          /\ Len(txns') = Len(txns) + 1
          /\ txns'[Len(txns')].amount =
               CompoundValue(accounts[Head(queue)].principal, accounts[Head(queue)].rate,
                             accounts[Head(queue)].term)]_vars

\* an investment bought at 12% for one month has just been paid out 101 while
\* its product stood at 120% for two months
C16_Witness ==
  /\ lastOp.op = "gic" /\ lastOp.ok /\ lastOp.acct = 2
  /\ accounts[2].rate = 12 /\ accounts[2].term = 1
  /\ HasProduct(1) /\ products[1].rate = 120 /\ products[1].term = 2
  /\ txns[Len(txns)].amount = 101

\* ------------------------------------------------------------------------
\* Properties of the settlement runs and of the loan lifecycle
\* ------------------------------------------------------------------------
\* the entries a disbursement of the loan has left: createSystemTransaction
\* has put '[SYSTEM] ' in front of the description disburseLoan gave
IsDisbursementOf(t, loanId) ==
  t.type = DEPOSIT /\ IsPrefix(<<"[SYSTEM] ">> \o DisbursementTag(loanId), t.desc)

Disbursements(loanId) == {i \in 1..Len(txns) : IsDisbursementOf(txns[i], loanId)}

\* the same on any ledger
DisbursementsIn(ledger, loanId) ==
  {i \in 1..Len(ledger) : IsDisbursementOf(ledger[i], loanId)}

\* C17: approveLoan appends no ledger entry, and a disbursement entry of a
\* loan appears only in the disbursement step of a settlement run on that
\* loan on a day that is not before its start date, in whatever zone the
\* server runs
C17_NoEarlyFunds ==
  [][/\ lastOp'.op = "approveLoan" => txns' = txns
     /\ \A l \in AccountIds(accounts) :
          DisbursementsIn(txns', l) # DisbursementsIn(txns, l) =>
            /\ pass = "disburse" /\ queue # <<>> /\ Head(queue) = l
            /\ ~DateLT(today, accounts[l].startDate)]_vars

\* a settlement run has just ended on the day it began, no request made
\* meanwhile
RunOfTodayDone == pass = "idle" /\ hist.lastDay = clock /\ hist.quiet

\* C18: a loan requested for the day of the request and approved on that day
\* has, once the settlement run of the next day (the one run since) is over,
\* exactly one disbursement deposit of its principal on the Chequing account
\* of the borrower, whose balance has grown from 0 to the principal, and is
\* Active
C18_NextDayDisbursed ==
  \A l \in AccountIds(accounts) :
    /\ IsLoan(l)
    /\ accounts[l].status # PENDING
    /\ accounts[l].startDate = PrevDay(today)
    /\ RunOfTodayDone
    /\ runs = 1
    => /\ accounts[l].status = ACTIVE
       /\ Cardinality(Disbursements(l)) = 1
       /\ \A i \in Disbursements(l) : txns[i].amount = accounts[l].principal
       /\ getBalance(FirstChequing(accounts[l].user)) = accounts[l].principal

\* the run of 2025-03-01 has ended, the first since the loan of 2025-02-28
\* was approved
C18_Witness ==
  /\ RunOfTodayDone
  /\ runs = 1
  /\ today = <<2025, 3, 1>>
  /\ \E l \in AccountIds(accounts) :
       /\ IsActiveLoan(l)
       /\ accounts[l].startDate = <<2025, 2, 28>>
       /\ Cardinality(Disbursements(l)) = 1

\* C19: a loan request whose start date is before today is refused and leaves
\* accounts and ledger as they were; any other request appends exactly one
\* Loan account, Pending, with the requested start date and principal, and
\* no ledger entry
C19_RequestValidated ==
  [][lastOp'.op = "createLoanRequest" /\ lastOp'.other \in 1..Len(Calendar) =>
       IF DateLT(Calendar[lastOp'.other], today)
       THEN /\ ~lastOp'.ok
            /\ accounts' = accounts
            /\ txns' = txns
       ELSE /\ lastOp'.ok
            /\ Len(accounts') = Len(accounts) + 1
            /\ SubSeq(accounts', 1, Len(accounts)) = accounts
            /\ accounts'[Len(accounts')].type = LOAN
            /\ accounts'[Len(accounts')].status = PENDING
            /\ accounts'[Len(accounts')].startDate = Calendar[lastOp'.other]
            /\ accounts'[Len(accounts')].principal = lastOp'.amount
            /\ txns' = txns]_vars

\* a request for a loan starting 2025-01-28 has just been refused on a later
\* day, leaving the borrower without any loan account
C19_Witness ==
  /\ lastOp.op = "createLoanRequest" /\ ~lastOp.ok
  /\ lastOp.other = 1
  /\ clock > 1
  /\ \A u \in Users : LoansOf(u) = {}

\* C6: however many times disburseLoan is invoked, the ledger holds at most
\* one disbursement deposit per loan
C6_OneDisbursement ==
  \A l \in AccountIds(accounts) : Cardinality(Disbursements(l)) <= 1

\* C7: a second runDailyTasks on the same calendar day, nothing else having
\* happened since the first began, leaves the ledger and every account
\* status as the first left them
C7_RunIdempotent == hist.repeatDone => hist.same

SettlementPasses == {"disburse", "interest", "payoff", "maturity"}

\* the status changes the lifecycle allows
LoanTransitions ==
  {<<PENDING, ACTIVE>>, <<PENDING, REJECTED>>, <<ACTIVE, PAID_OFF>>, <<ACTIVE, CLOSED>>}

\* C8: createLoanRequest, approveLoan, denyLoan and the settlement steps change
\* a loan's status only along Pending->Active, Pending->Rejected,
\* Active->PaidOff, Active->Closed, and change the status of no other account
C8_Monotone ==
  [][lastOp'.op \in {"createLoanRequest", "approveLoan", "denyLoan"} \cup SettlementPasses =>
       \A a \in AccountIds(accounts) :
         \/ accounts'[a].status = accounts[a].status
         \/ /\ accounts[a].type = LOAN
            /\ <<accounts[a].status, accounts'[a].status>> \in LoanTransitions]_vars

\* one iteration of a loan pass is made, on the loan at the head of the list
LoanPassStep ==
  /\ pass \in SettlementPasses
  /\ queue # <<>>
  /\ queue' = Tail(queue)

\* C9: once a settlement pass has made a loan PaidOff or Closed, every later
\* step of a settlement pass on that loan appends no ledger entry and leaves
\* every status as it is (a loan whose status the admin has since rewritten
\* through the edit form is not counted)
C9_SettledForGood ==
  [][LoanPassStep /\ Head(queue) \in hist.settled =>
       accounts' = accounts /\ txns' = txns]_vars

\* the call of a pass on one account has just thrown
Threw == lastOp.op \in SettlementPasses \cup {"gic"} /\ lastOp.other = 1

\* C11: a call that throws while a pass handles one account leaves the pass
\* in progress with the rest of its list to visit, and a run in progress
\* always reaches its end
C11_FailureIsolated ==
  /\ [][Threw' /\ lastOp' # lastOp =>
          pass' = pass /\ queue' = Tail(queue)]_vars
  /\ (pass # "idle") ~> (pass = "idle")

\* no request since the run began with two loans to disburse: the call on
\* the first threw and the pass has gone on to disburse the second
C11_Witness ==
  /\ hist.clean
  /\ lastOp.op = "disburse" /\ lastOp.ok /\ lastOp.acct = 3
  /\ Disbursements(3) # {}
  /\ Disbursements(2) = {}
  /\ IsActiveLoan(2)
  /\ ~DateLT(today, accounts[2].startDate)

\* the final-settlement withdrawals of a loan on a ledger
FinalPaymentsIn(ledger, loanId) ==
  {i \in 1..Len(ledger) :
     IsPrefix(<<"[SYSTEM] ">> \o FinalPaymentTag(loanId), ledger[i].desc)}

FinalPayments(loanId) == FinalPaymentsIn(txns, loanId)

\* the order of the passes of one run
PassOrder ==
  {<<"idle", "disburse">>, <<"disburse", "interest">>, <<"interest", "payoff">>,
   <<"payoff", "maturity">>, <<"maturity", "gic">>, <<"gic", "idle">>}

\* C10: the passes of a run follow one another in the order disbursement,
\* interest, payoff check, maturity check, GIC maturity, each one when the
\* one before has visited all its accounts; and a loan that met the payoff
\* condition when the payoff pass reached it is PaidOff, and gets no
\* final-settlement withdrawal, for the rest of the undisturbed run
C10_PassOrder ==
  /\ [][pass' # pass => <<pass, pass'>> \in PassOrder /\ queue = <<>>]_vars
  /\ [](\A l \in hist.eligible : accounts[l].status = PAID_OFF)
  /\ [][LoanPassStep /\ Head(queue) \in hist.eligible =>
          FinalPaymentsIn(txns', Head(queue)) = FinalPaymentsIn(txns, Head(queue))]_vars

\* a run has returned leaving PaidOff, with no final-settlement withdrawal, a
\* loan that was repaid in full and is past its maturity date
C10_Witness ==
  /\ lastOp.op = "PassDone" /\ lastOp.ok
  /\ \E l \in hist.eligible :
       /\ accounts[l].status = PAID_OFF
       /\ hasReachedMaturity(accounts[l].startDate, accounts[l].term, today)
       /\ FinalPayments(l) = {}

\* ------------------------------------------------------------------------
\* Properties of the ledger entries
\* ------------------------------------------------------------------------
\* C21: every entry of the ledger, in every reachable state, has a strictly
\* positive amount (an append with a zero or negative amount writes nothing)
C21_PositiveAmounts == \A i \in 1..Len(txns) : txns[i].amount > 0

\* C22: an entry posted by a client is Pending and moves the total balance of
\* its account at once, the available balance not at all; approveTransaction
\* on a Pending entry moves the available balance by the entry's signed amount
C22_PendingThenApproved ==
  [][/\ lastOp'.op = "addTransaction" =>
          LET t == txns'[Len(txns')]
          IN /\ t.status = PENDING
             /\ BalanceIn(txns', t.acct) = getBalance(t.acct) + SignedAmount(t)
             /\ ApprovedBalanceIn(txns', t.acct) = getApprovedBalance(t.acct)
     /\ lastOp'.op = "approveTransaction" =>
          \A i \in 1..Len(txns) :
            txns[i].id = lastOp'.acct /\ txns[i].status = PENDING =>
              /\ txns'[i].status = APPROVED
              /\ ApprovedBalanceIn(txns', txns[i].acct)
                   = getApprovedBalance(txns[i].acct) + SignedAmount(txns[i])
              /\ BalanceIn(txns', txns[i].acct) = getBalance(txns[i].acct)]_vars

C26_InterestAtMaturity ==
  [][lastOp'.op \in {"interest", "maturity"} /\ lastOp'.other = 0
       /\ IsActiveLoan(lastOp'.acct)
       /\ accounts[lastOp'.acct].freq = "At Maturity" =>
       LET l == lastOp'.acct
           loan == accounts[l]
           unpaid == IF loan.principal > getBalance(l)
                     THEN loan.principal - getBalance(l) ELSE 0
       IN IF lastOp'.op = "interest"
          THEN txns' = txns
          ELSE accounts'[l].status = CLOSED /\ loan.principal * loan.rate > 0 =>
                 /\ Len(txns') = Len(txns) + 1
                 /\ txns'[Len(txns')].acct \in ChequingOf(loan.user)
                 /\ txns'[Len(txns')].type = WITHDRAWAL
                 /\ txns'[Len(txns')].amount > unpaid]_vars
\* ------------------------------------------------------------------------
\* Properties of the order of disbursement and interest
\* ------------------------------------------------------------------------
\* C27: in every state, a loan for which the ledger holds an interest
\* withdrawal has a disbursement deposit in the ledger
C27_InterestAfterDisbursement ==
  \A l \in AccountIds(accounts) :
    (\E i \in 1..Len(txns) :
       /\ txns[i].type = WITHDRAWAL
       /\ \E f \in AllFreqs :
            IsPrefix(<<"[SYSTEM] ", f, " loan interest payment - Loan #", l>>, txns[i].desc))
      => Disbursements(l) # {}
\* C28: a disbursement step of a settlement run that visits an Active loan
\* whose borrower has a Chequing account, on a day at or after the loan's
\* start date and with no disbursement of the loan in the ledger yet,
\* deposits the principal: the ledger holds a disbursement of the loan
\* after the step, however late the loan was approved
C28_FirstRunDisburses ==
  [][lastOp'.op = "disburse" /\ lastOp'.other = 0
       /\ IsActiveLoan(lastOp'.acct)
       /\ ChequingOf(accounts[lastOp'.acct].user) # {}
       /\ ~DateLT(today, accounts[lastOp'.acct].startDate)
       /\ Disbursements(lastOp'.acct) = {}
       => \E i \in 1..Len(txns') :
            /\ IsDisbursementOf(txns'[i], lastOp'.acct)
            /\ txns'[i].amount = accounts[lastOp'.acct].principal
            /\ txns'[i].acct \in ChequingOf(accounts[lastOp'.acct].user)]_vars
\* ------------------------------------------------------------------------
\* Properties of the accounts a run visits
\* ------------------------------------------------------------------------
\* C29: the loan passes of a run work on the loans that were Active when the
\* run began: a loan approved while the run is in progress is not in the
\* list of the pass that begins next, and the loans the payoff pass found
\* repaid are still in the list of the maturity pass
C29_RunSnapshot ==
  [][lastOp'.op = "PassDone" /\ pass' \in {"interest", "payoff", "maturity"} =>
       LET visited == {queue'[i] : i \in 1..Len(queue')}
       IN /\ lastOp.op = "approveLoan" /\ lastOp.ok => lastOp.acct \notin visited
          /\ pass' = "maturity" => hist.eligible \subseteq visited]_vars
\* ------------------------------------------------------------------------
\* Properties of a settlement step that finds no Chequing account
\* ------------------------------------------------------------------------
\* C30: a settlement step that needs the Chequing account of an Active
\* loan's borrower (a disbursement on or after the start date, an interest
\* payment that is due, a maturity check at or after maturity) or of a
\* matured Active investment's owner, and finds none, throws and is logged
\* by the pass, writes no ledger entry and changes no status, and the pass
\* goes on with its next account; this holds in every run
C30_MissingChequing ==
  [][LET a == accounts[lastOp'.acct]
         matured == hasReachedMaturity(a.startDate, a.term, today)
         needed == (lastOp'.op = "disburse" /\ ~DateLT(today, a.startDate))
                     \/ (lastOp'.op = "interest" /\ interestDue(a, today) > 0)
                     \/ (lastOp'.op = "maturity" /\ matured)
                     \/ (lastOp'.op = "gic" /\ matured)
     IN (/\ lastOp'.op \in {"disburse", "interest", "maturity", "gic"}
         /\ lastOp'.acct \in AccountIds(accounts)
         /\ a.status = ACTIVE
         /\ ChequingOf(a.user) = {}
         /\ needed)
        => (/\ lastOp'.other = 1
            /\ ~lastOp'.ok
            /\ txns' = txns
            /\ accounts' = accounts
            /\ pass' = pass
            /\ queue' = Tail(queue))]_vars

\* in the second run the maturity step of the investment throws again: the
\* investment is still Active and the ledger still empty
C30_Witness ==
  /\ runs = 2
  /\ lastOp.op = "gic" /\ lastOp.other = 1 /\ ~lastOp.ok
  /\ accounts[lastOp.acct].status = ACTIVE
  /\ ChequingOf(accounts[lastOp.acct].user) = {}
  /\ txns = <<>>
\* ------------------------------------------------------------------------
\* Properties of the funds behind a settlement withdrawal
\* ------------------------------------------------------------------------
\* C31: an interest step on a due date and a maturity step of a loan with
\* unpaid principal append their withdrawal in full on the borrower's
\* Chequing account whatever its balance is: the balance goes down by the
\* whole amount due, below zero when it was smaller
C31_NoFundsCheck ==
  [][LET l == lastOp'.acct
         a == accounts[l]
         due == IF lastOp'.op = "interest" THEN interestDue(a, today)
                ELSE IF hasReachedMaturity(a.startDate, a.term, today)
                THEN a.principal - getBalance(l) ELSE 0
     IN (/\ lastOp'.op \in {"interest", "maturity"} /\ lastOp'.other = 0
         /\ IsActiveLoan(l)
         /\ ChequingOf(a.user) # {}
         /\ due > 0)
        => (/\ Len(txns') = Len(txns) + 1
            /\ SubSeq(txns', 1, Len(txns)) = txns
            /\ txns'[Len(txns')].type = WITHDRAWAL
            /\ txns'[Len(txns')].amount = due
            /\ txns'[Len(txns')].status = APPROVED
            /\ txns'[Len(txns')].acct \in ChequingOf(a.user)
            /\ BalanceIn(txns', txns'[Len(txns')].acct)
                 = getBalance(txns'[Len(txns')].acct) - due)]_vars

\* an interest payment was taken from a Chequing account that held less than
\* the payment: its balance is negative
C31_Witness ==
  /\ lastOp.op = "interest" /\ lastOp.ok
  /\ txns[Len(txns)].type = WITHDRAWAL
  /\ getBalance(txns[Len(txns)].acct) < 0
  /\ getBalance(txns[Len(txns)].acct) + txns[Len(txns)].amount >= 0
\* ------------------------------------------------------------------------
\* Properties of the check and the write of a transfer
\* ------------------------------------------------------------------------
\* C32: the validation of a transfer writes nothing and passes only when
\* the source's balance covers the amount; the Withdrawal is written in a
\* later step, whatever the source's balance has become by then
C32_CheckThenWrite ==
  [][/\ lastOp'.op = "startTransfer" =>
          /\ txns' = txns
          /\ lastOp'.ok => getBalance(lastOp'.acct) >= lastOp'.amount
     /\ lastOp'.op = "debitSource" =>
          /\ Len(txns') = Len(txns) + 1
          /\ SubSeq(txns', 1, Len(txns)) = txns
          /\ txns'[Len(txns')].type = WITHDRAWAL
          /\ txns'[Len(txns')].acct = job[lastOp'.acct].src
          /\ txns'[Len(txns')].amount = job[lastOp'.acct].amount]_vars

\* two transfers out of the same account have both been committed, and
\* together they took more than the balance either was validated against:
\* no request is in progress and the source's balance is below zero
C32_Witness ==
  /\ \A p \in Procs : ppc[p] = "idle"
  /\ ~txnOpen
  /\ \E i \in 1..Len(txns), j \in 1..Len(txns) :
       /\ txns[i].tid # 0 /\ txns[j].tid # 0 /\ txns[i].tid # txns[j].tid
       /\ txns[i].type = WITHDRAWAL /\ txns[j].type = WITHDRAWAL
       /\ txns[i].acct = txns[j].acct
       /\ \A k \in {i, j} : \E d \in 1..Len(txns) :
            txns[d].tid = txns[k].tid /\ txns[d].type = DEPOSIT
       /\ getBalance(txns[i].acct) < 0
       /\ getBalance(txns[i].acct) + txns[i].amount >= 0
       /\ getBalance(txns[i].acct) + txns[j].amount >= 0
\* ------------------------------------------------------------------------
\* Properties of the payment quote
\* ------------------------------------------------------------------------
\* C33: with M the monthly amortized payment of the loan, the quote is M
\* for Monthly, M * 12 / 26 for bi-weekly (under either spelling),
\* M * 12 for annual, and nothing for At Maturity
C33_PaymentByFrequency ==
  lastOp.op = "calculateLoanPayment" =>
    LET loan == accounts[lastOp.acct]
        M == calculateMonthlyPayment(loan.principal, loan.rate, loan.term)
    IN CASE loan.freq = "Monthly" -> lastOp.amount = M
         [] loan.freq \in {"Biweekly", "Bi-weekly"} ->
              lastOp.amount = <<M[1] * 12, M[2] * 26>>
         [] loan.freq = "Annual" -> lastOp.amount = <<M[1] * 12, M[2]>>
         [] loan.freq = "At Maturity" -> lastOp.amount[1] = 0
         [] OTHER -> TRUE
\* ------------------------------------------------------------------------
\* Properties of a status read and the write that follows it
\* ------------------------------------------------------------------------
\* C34: the writing half of a maturity step takes effect only on a row that
\* is still Active: when the loan or the investment has left Active since
\* the step read it, the step appends no ledger entry and writes no status
C34_NoStaleWrite ==
  [][lastOp'.op = "writeMatured" /\ accounts[lastOp'.acct].status # ACTIVE
       => txns' = txns /\ accounts' = accounts]_vars
\* ------------------------------------------------------------------------
\* Properties of the two legs of a transfer
\* ------------------------------------------------------------------------
\* C35: in every state, each transferId of the ledger is carried by exactly
\* two entries, one Deposit and one Withdrawal, of equal amount and date and
\* both Approved
C35_PairedLegs ==
  \A i \in 1..Len(txns) :
    txns[i].tid # 0 =>
      LET legs == {j \in 1..Len(txns) : txns[j].tid = txns[i].tid}
      IN /\ Cardinality(legs) = 2
         /\ \E d \in legs, w \in legs :
              /\ txns[d].type = DEPOSIT /\ txns[w].type = WITHDRAWAL
              /\ txns[d].amount = txns[w].amount
              /\ txns[d].date = txns[w].date
              /\ txns[d].status = APPROVED /\ txns[w].status = APPROVED
\* ------------------------------------------------------------------------
\* Properties of the reach of a ROLLBACK
\* ------------------------------------------------------------------------
\* C36: the ROLLBACK of a failed db.transaction takes back no entry that a
\* request outside it has posted and reported (the entries without a
\* transferId), and once it has been issued no entry of the failed transfer
\* is left on the ledger
C36_RollbackScope ==
  [][\A p \in Procs :
       ppc[p] = "rollback" /\ ppc'[p] = "idle" =>
         /\ \A i \in 1..Len(txns) :
              txns[i].tid = 0 => \E j \in 1..Len(txns') : txns'[j] = txns[i]
         /\ \A j \in 1..Len(txns') : txns'[j].tid # job[p].tid]_vars

\* C37: a client transfer is accepted only if its amount does not exceed the
\* balance of the source counted over its Approved entries alone, so a Pending
\* deposit is never moved on and the Approved-only balance of the source is
\* not negative after the transfer; a rejected transfer appends nothing
C37_ApprovedFundsOnly ==
  [][LET available(ledger, a) ==
           SumSeq([i \in 1..Len(ledger) |->
                     IF ledger[i].acct = a /\ ledger[i].status = APPROVED
                     THEN SignedAmount(ledger[i]) ELSE 0])
     IN (lastOp'.op = "transfer") =>
          (IF lastOp'.ok
           THEN /\ lastOp'.amount <= available(txns, lastOp'.acct)
                /\ available(txns', lastOp'.acct) >= 0
           ELSE txns' = txns)]_vars

\* C38: for every loan the principal collected from the borrower, the
\* transfers credited to the loan plus the final payment withdrawn at
\* maturity, never exceeds the principal; a transfer into a loan that is not
\* Active is not accepted
C38_PrincipalCollectedOnce ==
  [][LET collected(ledger, loanId) ==
           SumSeq([i \in 1..Len(ledger) |->
                     IF \/ /\ ledger[i].acct = loanId
                           /\ ledger[i].tid # 0
                           /\ ledger[i].type = DEPOSIT
                        \/ /\ ledger[i].type = WITHDRAWAL
                           /\ ledger[i].desc = <<"[SYSTEM] ">> \o FinalPaymentTag(loanId)
                     THEN ledger[i].amount ELSE 0])
     IN /\ \A a \in AccountIds(accounts') :
             accounts'[a].type = LOAN => collected(txns', a) <= accounts'[a].principal
        /\ (lastOp'.op = "transfer" /\ lastOp'.ok /\ accounts[lastOp'.other].type = LOAN)
             => accounts[lastOp'.other].status = ACTIVE]_vars

\* C39: with one transfer served at a time the balance of a loan account never
\* exceeds its PrincipalAmount: a transfer that would push the balance of the
\* destination loan above the principal is rejected and writes nothing, one
\* that brings it to exactly the principal (the source holding the amount) is
\* accepted
C39_LoanBalanceCapped ==
  [][/\ \A a \in AccountIds(accounts') :
          accounts'[a].type = LOAN => BalanceIn(txns', a) <= accounts'[a].principal
     /\ (lastOp'.op = "startTransfer" /\ accounts[lastOp'.other].type = LOAN) =>
          LET src == lastOp'.acct
              dst == lastOp'.other
              after == getBalance(dst) + lastOp'.amount
          IN /\ (after > accounts[dst].principal) => (~lastOp'.ok /\ txns' = txns)
             /\ (after = accounts[dst].principal /\ getBalance(src) >= lastOp'.amount)
                  => lastOp'.ok]_vars

\* two transfers, served one after the other, have brought a loan to exactly
\* its principal
C39_Witness ==
  /\ lastOp.op = "COMMIT"
  /\ lastOp.ok
  /\ \E a \in AccountIds(accounts) :
       /\ accounts[a].type = LOAN
       /\ getBalance(a) = accounts[a].principal
       /\ \E i, j \in 1..Len(txns) :
            /\ txns[i].acct = a /\ txns[j].acct = a
            /\ txns[i].tid # 0 /\ txns[j].tid # 0 /\ txns[i].tid # txns[j].tid

\* C40: with one settlement run on every calendar day, a Monthly loan is
\* charged interest exactly once in every calendar month after its start
\* month up to its maturity, whatever its start day, also in months shorter
\* than the start day: no month holds two charges, and a month of the term
\* that is over holds one
C40_MonthlyEveryMonth ==
  \A l \in AccountIds(accounts) :
    (accounts[l].type = LOAN /\ accounts[l].freq = "Monthly") =>
      \A m \in 1..12 :
        LET charges == {i \in 1..Len(txns) :
                          /\ txns[i].desc = <<"[SYSTEM] ", "Monthly",
                                              " loan interest payment - Loan #", l>>
                          /\ txns[i].date[1] = accounts[l].startDate[1]
                          /\ txns[i].date[2] = m}
        IN /\ Cardinality(charges) <= 1
           /\ (/\ accounts[l].startDate[2] < m
               /\ m <= accounts[l].startDate[2] + accounts[l].term
               /\ today[1] = accounts[l].startDate[1]
               /\ today[2] > m)
                => Cardinality(charges) = 1

====
